---- MODULE Spec2Model ----
(***************************************************************************)
(* A model of the AZH_lid reactor TCP server.                              *)
(*                                                                         *)
(* Spec      one accepted TcpConnection on a worker EventLoop: the         *)
(*           acceptor thread, the worker thread, application threads that  *)
(*           call send()/shutdown(), the idle manager's ticker thread and  *)
(*           the peer.  Steps are split wherever one thread's accesses to  *)
(*           shared memory (state_, connfd_, the pending queue, the server *)
(*           registry and its mutex, the idle map) can interleave with     *)
(*           another thread's; code that touches only what the worker      *)
(*           thread owns (channel, buffers, epoll) runs inside one step.   *)
(*           The idle manager is seen through two flags: the descriptor is *)
(*           in its map, the connection's entry is in a wheel slot.        *)
(* SpecSend  the same connection once do_accept has returned, with the     *)
(*           application threads making more calls.                        *)
(* SpecWheel the time wheel of ConnectionTimeoutManager with one entry     *)
(*           whose activity is never updated, against a clock.             *)
(* SpecLoop  the task queue of one EventLoop: producer threads that call   *)
(*           queueInLoop and the owner thread's loop().                    *)
(***************************************************************************)
EXTENDS Integers, Sequences, FiniteSets, TLC

\* ------------------------------------------------------------------------
\* Bounds of the model
\* ------------------------------------------------------------------------
\* send()/shutdown() calls the application threads make in Spec
MaxOps == 1
\* send()/shutdown() calls the application threads make in SpecSend
MaxSendOps == 2
\* the OutputBuffer's 1 MiB ceiling, scaled to bytes of the model
MaxBuf == 2
\* user-callback actions (send/shutdown made inline on the worker thread)
MaxUser == 1
\* SpecWheel: the idle timeout T and the tick interval I, in units of time
MaxTimeout == 3
MaxInterval == 2
\* SpecWheel: wheel sizes 1..MaxWheel, besides the server's
MaxWheel == 3
\* SpecWheel: the clock stops at MaxTime; a connection is added by MaxAddTime
MaxTime == 30
MaxAddTime == 4
\* SpecLoop: tasks each producer thread enqueues, tasks the tasks enqueue
MaxTasks == 2
MaxOwnerTasks == 1

\* the wheel size TcpServer::start gives the idle manager
ServerWheelSize == 60

\* the descriptor accept4 returned for the connection
ConnFd == 3

AppThreads == {"a1", "a2"}
Ticker == "tk"
Worker == "w"
Callers == AppThreads \cup {Ticker}

\* a send may be longer than the whole buffer ceiling
SendLens == 1..(MaxBuf + 1)

VARIABLES
    conn,          \* TcpConnection: state_, connfd_, channel_, its events_, output_buf_
    sock,          \* what the kernel saw: bytes written, epoll registration, close/shutdown calls
    on_connected,  \* invocations of the user connected callback
    on_closed,     \* invocations of the user close callback
    connections,   \* TcpServer::connections_ (the descriptors it holds)
    conn_mutex,    \* TcpServer::conn_mutex_: "free" or the thread holding it
    idle_map,      \* the idle manager's connections_ holds the descriptor
    pending,       \* EventLoop::pending_functors_
    functors,      \* the batch do_pending_functors swapped out and is running
    drained,       \* do_pending_functors ran since the last poll
    wpc,           \* where the worker thread is
    acc,           \* where the acceptor thread is
    accfd,         \* the fd add_new_tcp_conn read from the connection
    apc,           \* where each calling thread is
    amsg,          \* the payload a calling thread copied for its queued send
    nops,          \* operations issued per application thread
    nuser,         \* user-callback actions made on the worker thread
    sendLog,       \* send() calls and queued sendInLoop runs: the state found, the result
    peer,          \* the peer: open / fin / reset, and whether unread data is queued
    idle_slot,     \* a wheel slot of the idle manager holds the connection's entry
    idleFired,     \* the idle-timeout callback ran and found the connection Connected
    closeSeen,     \* a close trigger was handled while the state was Disconnecting
    budget,        \* the calls the specification lets threads and callbacks make
    \* ConnectionTimeoutManager (SpecWheel)
    wcfg,          \* idle_timeout_ms_ (T), tick_interval_ms_ (I), wheel_size_ (W)
    now,           \* the steady clock
    next_tick,     \* when the sleep of time_wheel_loop ends
    tpc,           \* where time_wheel_loop is: "sleep" or "advance"
    current_slot,  \* current_slot_
    time_wheel,    \* time_wheel_: for each slot the descriptors whose entry it holds
    wentry,        \* the ConnectionEntry of the connection
    wmap,          \* connections_ of the manager: the descriptors it holds
    timeout_at,    \* when the timeout callback got the connection, -1 before
    \* EventLoop (SpecLoop); pending and functors are the loop's queue and batch
    lpc,           \* where the owner thread is in loop()
    ran,           \* the tasks executed, in order, with the drain that ran each
    enq,           \* tasks enqueued so far by each producer
    ppc,           \* where each producer thread is in queueInLoop
    wakeup_fd,     \* the counter of the wake-up eventfd
    \* EventLoop::stop and the wake-up channel (SpecWake, SpecStop)
    running,       \* running_
    registered,    \* the wake-up channel is in the notifier and in channels_
    destroyed,     \* the EventLoop object has been destroyed
    before_stop,   \* the tasks enqueued before EventLoop::stop, "none" before it
    \* TcpServer::stop and EventLoopThreadPool::stop (SpecStop)
    started,       \* TcpServer::started_
    starts,        \* successful calls of TcpServer::start
    pool_started,  \* EventLoopThreadPool::started_
    spc,           \* where each thread calling TcpServer::stop is
    stop_acts,     \* how often the stop sequence acted on each component
    to_close,      \* connections_to_close of each thread in TcpServer::stop
    \* EventLoopThreadPool and TcpServer::get_next_loop (SpecPool)
    io_thread_count, \* the io_thread_count the server was constructed with
    hw,            \* what std::thread::hardware_concurrency() returns
    thread_count,  \* thread_count_ of the pool
    nthreads,      \* threads_.size()
    next_index,    \* next_index_
    gpc,           \* where each thread calling TcpServer::get_next_loop is
    got,           \* the loops get_next_loop returned, in the order of the calls
    \* Channel and EventLoop::update_channel (SpecChannel)
    ch_events,     \* events_ of the channel
    ep_mask,       \* the notifier's entry for the descriptor: present, with a mask
    in_channels,   \* the descriptor is a key of channels_
    chq,           \* queued update tasks of the channel
    cpc,           \* where each thread is inside a mask mutation or an update
    clocal,        \* the value of events_ each thread has read
    cops,          \* mask mutations issued so far by each thread
    \* MemoryPool (SpecMem)
    free_list,     \* pool_: the free chunks of each size, the list head first
    current_usage_bytes, \* current_usage_bytes_
    held,          \* the chunks each thread holds
    mpc,           \* where each thread is inside alloc_chunk
    msize,         \* the chunk size of the alloc_chunk call in progress
    mreq,          \* the argument of each thread's latest alloc_chunk call
    mret,          \* how that call ended (a chunk, nullptr, a throw) and the chunk
    stats,         \* stats_: total_allocations and total_deallocations
    \* InputBuffer and OutputBuffer (SpecIn, SpecOut)
    ib,            \* the InputBuffer's data_buf: capacity, length, head
    ipc,           \* where read_from_fd is: idle, or at its read(2)
    iret,          \* what the latest read_from_fd returned
    ob,            \* the OutputBuffer's data_buf: capacity, head, the bytes
    oret,          \* the latest OutputBuffer call and what it returned
    opc,           \* idle, or aborted by a failed assert
    \* Acceptor::do_accept under descriptor exhaustion (SpecAccept)
    dpc,           \* where do_accept is
    idle_fd,       \* idle_fd_: 1 while it names an open descriptor, else -1
    nfree,         \* descriptors the process may still open
    backlog,       \* connections waiting in the listener's queue
    nothers,       \* descriptors held by the other threads
    naccepted,     \* descriptors of accepted connections still open
    rescue,        \* the latest iteration: its kind, and whether the rescue
                   \* took a connection off the queue
    \* the user callbacks behind the server's wrappers (SpecCallbacks)
    cbset,         \* the user callbacks that are set
    cbpc,          \* the connection: new, connected, closed, deadlock, unwound
    cblog,         \* the user callbacks invoked so far, and which of them threw
    cbfd,          \* connfd_ of the connection, -1 once closed
    cbreads,       \* handle_read calls that delivered data so far
    \* ThreadPool (SpecThreadPool)
    tp_run,        \* tp_run_
    tp_tasks,      \* tp_tasks_: the queued tasks, the front first
    tp_mutex,      \* the thread that holds tp_mutex_, or "free"
    wst,           \* where each worker is inside thread_worker
    wtask,         \* the task each worker took from the queue
    executed,      \* the tasks executed, in the order of their execution
    postpc,        \* where the posting thread is inside post_task
    posted,        \* post_task calls made: accepted, rejected
    stpc,          \* where the thread that calls stop() is
    \* TcpConnection::handle_event, call by call (SpecDispatch)
    tc,            \* the connection, and the calls of the latest handle_event
    hmask,         \* the mask the latest handle_event was given
    hn,            \* the masks delivered so far
    \* ConnectionTimeoutManager and its threads, lock by lock (SpecIdle)
    im_map,        \* connections_[fd]: the entry the map holds for the
                   \* connection, 0 when it holds none
    im_entries,    \* the ConnectionEntry objects made so far
    im_slots,      \* time_wheel_[i].entries, a list of entries for each slot
    im_mutex,      \* the owner of connections_mutex_ and of each slot_mutex
    im_total,      \* total_connections_
    im_pc,         \* where each thread is inside the manager
    im_local,      \* the local variables of each thread
    im_connected,  \* conn->is_connected()
    im_ghost,      \* what has been called and has returned so far
    \* TcpServer::start and stop with the acceptor on the base loop (SpecLife)
    lf_started,    \* started_
    lf_cfg,        \* idle_timeout_enabled_
    lf_threads,    \* the idle manager's threads and the pool's worker thread
                   \* are running
    lf_acceptor,   \* acceptor_: null, alive, destroyed
    lf_listen_fd,  \* listen_fd_: none, open, closed
    lf_channel,    \* the acceptor's channel: its events_ and whether the
                   \* loop's channels_ holds it
    lf_backlog,    \* connections waiting in the listener's queue
    lf_registry,   \* the number of connections in connections_
    lf_pending,    \* the base loop's pending_functors_
    lf_base,       \* where the base loop's thread is
    lf_pc,         \* where each thread is inside start() or stop()
    lf_ghost       \* what start() and stop() have done so far

connVars == <<conn, sock, on_connected, on_closed, connections, conn_mutex,
              idle_map, idle_slot, pending, functors, drained, wpc, acc, accfd, apc, amsg,
              nops, nuser, sendLog, peer, idleFired, closeSeen, budget>>

wheelVars == <<wcfg, now, next_tick, tpc, current_slot, time_wheel, wentry, wmap,
               timeout_at>>

loopVars == <<lpc, ran, enq, ppc, wakeup_fd>>

stopVars == <<running, registered, destroyed, before_stop>>

serverVars == <<started, starts, pool_started, spc, stop_acts, to_close>>

rrVars == <<io_thread_count, hw, thread_count, nthreads, next_index, gpc, got>>

chanVars == <<ch_events, ep_mask, in_channels, chq, cpc, clocal, cops>>

memVars == <<free_list, current_usage_bytes, held, mpc, msize, mreq, mret,
             stats>>

bufVars == <<ib, ipc, iret, ob, oret, opc>>

exhaustVars == <<dpc, idle_fd, nfree, backlog, nothers, naccepted, rescue>>

cbVars == <<cbset, cbpc, cblog, cbfd, cbreads>>

tpVars == <<tp_run, tp_tasks, tp_mutex, wst, wtask, executed, postpc, posted,
            stpc>>

dispVars == <<tc, hmask, hn>>

idleVars == <<im_map, im_entries, im_slots, im_mutex, im_total, im_pc, im_local,
              im_connected, im_ghost>>

lifeVars == <<lf_started, lf_cfg, lf_threads, lf_acceptor, lf_listen_fd,
              lf_channel, lf_backlog, lf_registry, lf_pending, lf_base, lf_pc,
              lf_ghost>>

moreVars == <<bufVars, exhaustVars, cbVars, tpVars, dispVars, idleVars,
              lifeVars>>

restVars == <<rrVars, chanVars, memVars, moreVars>>

extVars == <<stopVars, serverVars, restVars>>

vars == <<connVars, wheelVars, loopVars, extVars>>

\* ------------------------------------------------------------------------
\* Helpers
\* ------------------------------------------------------------------------
Res(c, k, cl) == [c |-> c, k |-> k, closing |-> cl]

\* the bytes of the k-th call of thread t, a send of len bytes: byte i of n
Msg(t, k, len) == [i \in 1..len |-> [t |-> t, k |-> k, i |-> i, n |-> len]]

Task(kind, msg) == [kind |-> kind, msg |-> msg]

\* ------------------------------------------------------------------------
\* EventLoop: the pending queue
\* ------------------------------------------------------------------------
\* a queue that takes the new task at its head
push_front(q, f) == <<f>> \o q

\* queueInLoop under mutex_: pending_functors_.push_back(cb)
push_back(q, f) == Append(q, f)

\* ------------------------------------------------------------------------
\* Channel and EventLoop::update_channel (owner thread, epoll calls succeed)
\* ------------------------------------------------------------------------
update_channel(c, k) == [k EXCEPT !.registered = c.events]

enable_read(c, k) ==
    LET c1 == [c EXCEPT !.events = @ \cup {"IN", "RDHUP"}]
    IN  Res(c1, update_channel(c1, k), FALSE)

enable_write(c, k) ==
    LET c1 == [c EXCEPT !.events = @ \cup {"OUT"}]
    IN  Res(c1, update_channel(c1, k), FALSE)

disable_write(c, k) ==
    LET c1 == [c EXCEPT !.events = @ \ {"OUT"}]
    IN  Res(c1, update_channel(c1, k), FALSE)

disable_all(c, k) ==
    LET c1 == [c EXCEPT !.events = {}]
    IN  Res(c1, update_channel(c1, k), FALSE)

\* ------------------------------------------------------------------------
\* OutputBuffer
\* ------------------------------------------------------------------------
Min(a, b) == IF a < b THEN a ELSE b

\* write(2) of len bytes into a send buffer with the given room:
\* space < 0 an error other than EAGAIN, 0 EAGAIN (reported as 0 bytes)
KWrite(len, space) == IF space < 0 THEN -1 ELSE Min(len, space)

\* poolOk: the pool serves the chunk asked of it (the first chunk of an empty
\* buffer, the larger chunk of one whose chunk is full)
ensure_capacity(buf, additional, poolOk) ==
    IF additional <= 0 \/ additional > MaxBuf THEN FALSE
    ELSE IF Len(buf) = 0 THEN poolOk
    ELSE Len(buf) + additional <= MaxBuf /\ poolOk

write_to_buf(buf, data, poolOk) ==
    IF Len(data) <= 0 THEN [ok |-> TRUE, buf |-> buf]
    ELSE IF Len(data) > MaxBuf THEN [ok |-> FALSE, buf |-> buf]
    ELSE IF ~ensure_capacity(buf, Len(data), poolOk) THEN [ok |-> FALSE, buf |-> buf]
    ELSE [ok |-> TRUE, buf |-> buf \o data]

\* space: the room of the socket's send buffer at the write(2)
write_to_fd(buf, fd, wire, space) ==
    IF fd < 0 THEN [n |-> -1, buf |-> buf, wire |-> wire]
    ELSE IF Len(buf) = 0 THEN [n |-> 0, buf |-> buf, wire |-> wire]
    ELSE LET n == KWrite(Len(buf), space)
         IN  IF n > 0 THEN [n |-> n, buf |-> SubSeq(buf, n + 1, Len(buf)),
                            wire |-> wire \o SubSeq(buf, 1, n)]
             ELSE [n |-> n, buf |-> buf, wire |-> wire]

\* ------------------------------------------------------------------------
\* TcpConnection, the parts that run on the worker thread
\* ------------------------------------------------------------------------
\* handle_close up to the close callback: the CAS and the channel teardown.
\* closing = TRUE: the caller goes on with close_cb_ and ::close (CloseCb...).
handle_close(c, k) ==
    IF c.state # "Connected" THEN Res(c, k, FALSE)
    ELSE LET c1 == [c EXCEPT !.state = "Disconnected"]
         IN  IF c1.channel
             THEN LET r == disable_all(c1, k)
                  IN  Res([r.c EXCEPT !.channel = FALSE], r.k, TRUE)
             ELSE Res(c1, k, TRUE)

handle_error(c, k) == handle_close(c, k)

connect_established(c, k) ==
    LET r == enable_read([c EXCEPT !.channel = TRUE], k)
    IN  Res([r.c EXCEPT !.state = "Connected"], r.k, FALSE)

\* shutdownInLoop without its test of the state
shutdownInLoop_unguarded(c, k) ==
    LET c1 == [c EXCEPT !.state = "Disconnecting"]
    IN  IF Len(c1.output_buf) = 0
        THEN Res(c1, [k EXCEPT !.shutWr = @ + 1], FALSE)
        ELSE Res(c1, k, FALSE)

shutdownInLoop(c, k) ==
    IF c.state # "Connected" THEN Res(c, k, FALSE)
    ELSE LET c1 == [c EXCEPT !.state = "Disconnecting"]
         IN  IF Len(c1.output_buf) = 0
             THEN Res(c1, [k EXCEPT !.shutWr = @ + 1], FALSE)
             ELSE Res(c1, k, FALSE)

\* space: the room of the socket's send buffer at the direct write
sendInLoop(c, k, data, space, poolOk) ==
    IF c.state # "Connected" THEN Res(c, k, FALSE)
    ELSE LET n == IF Len(c.output_buf) = 0 THEN KWrite(Len(data), space) ELSE 0
         IN  IF n < 0 THEN handle_error(c, k)
             ELSE LET k1 == [k EXCEPT !.wire = @ \o SubSeq(data, 1, n)]
                  IN  IF n < Len(data)
                      THEN LET wb == write_to_buf(c.output_buf,
                                        SubSeq(data, n + 1, Len(data)), poolOk)
                               \* the result of write_to_buf is not looked at
                           IN  enable_write([c EXCEPT !.output_buf = wb.buf], k1)
                      ELSE Res(c, k1, FALSE)

handle_write(c, k, space) ==
    LET r  == write_to_fd(c.output_buf, c.connfd, k.wire, space)
        c1 == [c EXCEPT !.output_buf = r.buf]
        k1 == [k EXCEPT !.wire = r.wire]
    IN  IF r.n < 0 THEN handle_error(c1, k1)
        ELSE IF Len(c1.output_buf) = 0
        THEN LET d == disable_write(c1, k1)
             IN  IF d.c.state = "Disconnecting"
                 THEN Res(d.c, [d.k EXCEPT !.shutWr = @ + 1], FALSE)
                 ELSE d
        ELSE Res(c1, k1, FALSE)

\* calls the application threads have made
Issued == nops["a1"] + nops["a2"]

\* a state check that turns away only a connection that is already closed
send_accepts_unless_closed(st) == st # "Disconnected"

\* the state check at the head of send()
send_accepts(st) == st = "Connected"

\* the state check at the head of shutdown()
shutdown_accepts(st) == st = "Connected"

\* What a user callback running on the worker thread does with the connection:
\* u.kind "none", "send" (send() inline: sendInLoop) or "shutdown" (runInLoop
\* inline: shutdownInLoop).
user_callback(c, k, u, data, space, poolOk) ==
    IF u = "send" /\ send_accepts(c.state) THEN sendInLoop(c, k, data, space, poolOk)
    ELSE IF u = "shutdown" /\ shutdown_accepts(c.state) THEN shutdownInLoop(c, k)
    ELSE Res(c, k, FALSE)

\* rd: what read_from_fd returned: "data" (n > 0), "zero" (EOF or would-block),
\* "err" (n < 0: the read failed, or the input buffer could get no space)
handle_read(c, k, rd, u, data, space, poolOk) ==
    IF rd = "data" THEN user_callback(c, k, u, data, space, poolOk)
    ELSE IF rd = "zero" THEN handle_close(c, k)
    ELSE handle_error(c, k)

\* TcpConnection::handle_event on the mask M epoll delivered.  After a
\* handle_read that closed the connection, handle_write finds connfd_ = -1 and
\* a state that is not Connected: it changes nothing.
handle_event(c, k, M, rd, u, data, space, poolOk, wspace) ==
    IF M \cap {"ERR", "HUP"} # {} THEN handle_error(c, k)
    ELSE IF "RDHUP" \in M THEN handle_close(c, k)
    ELSE LET r1 == IF "IN" \in M THEN handle_read(c, k, rd, u, data, space, poolOk)
                   ELSE Res(c, k, FALSE)
         IN  IF r1.closing THEN r1
             ELSE IF "OUT" \in M THEN handle_write(r1.c, r1.k, wspace)
             ELSE r1

\* ------------------------------------------------------------------------
\* The kernel side of the socket
\* ------------------------------------------------------------------------
Spaces == -1..(MaxBuf + 1)

\* the events the level-triggered epoll reports for the descriptor
Ready(space) ==
    (IF peer.data \/ peer.st # "open" THEN {"IN"} ELSE {})
    \cup (IF peer.st = "fin" THEN {"RDHUP"} ELSE {})
    \cup (IF space # 0 THEN {"OUT"} ELSE {})
    \cup (IF peer.st = "reset" THEN {"ERR", "HUP"} ELSE {})
    \cup (IF peer.st = "fin" /\ sock.shutWr > 0 THEN {"HUP"} ELSE {})

Delivered(space) == Ready(space) \cap (sock.registered \cup {"ERR", "HUP"})

\* what a user callback on the worker thread may do: [u, len, space, poolOk]
UserChoices ==
    {[u |-> "none", len |-> 1, space |-> 0, poolOk |-> TRUE]}
    \cup (IF nuser < budget.user
          THEN {[u |-> "shutdown", len |-> 1, space |-> 0, poolOk |-> TRUE]}
               \cup [u : {"send"}, len : SendLens, space : Spaces, poolOk : BOOLEAN]
          ELSE {})

\* the bookkeeping of a user callback's choice
UserLog(ch, st) ==
    /\ nuser' = IF ch.u = "none" THEN nuser ELSE nuser + 1
    /\ sendLog' = IF ch.u = "send"
                  THEN sendLog \cup {[op |-> "send", st |-> st,
                                      ret |-> send_accepts(st)]}
                  ELSE sendLog

UserData(ch) == Msg(Worker, nuser + 1, ch.len)

\* ------------------------------------------------------------------------
\* Init
\* ------------------------------------------------------------------------
\* the idle manager's wheel and the loop's task log, where a specification
\* leaves them alone
NoEntry == [slot_position |-> -1, remaining_ticks |-> -1, last_activity_time |-> -1]

WheelIdle ==
    /\ wcfg = [T |-> 1, I |-> 1, W |-> 1]
    /\ now = 0
    /\ next_tick = 0
    /\ tpc = "sleep"
    /\ current_slot = 0
    /\ time_wheel = [i \in 0..0 |-> {}]
    /\ wentry = NoEntry
    /\ wmap = {}
    /\ timeout_at = -1

Producers == {"p1", "p2"}
Owner == "owner"

LoopIdle ==
    /\ lpc = "drain1"
    /\ ran = <<>>
    /\ enq = [p \in Producers \cup {Owner} |-> 0]
    /\ ppc = [p \in Producers |-> "idle"]
    /\ wakeup_fd = 0

Stoppers == {"s1", "s2"}

\* the components TcpServer::stop acts on
Components == {"idle_manager", "acceptor", "registry", "pool"}

\* a loop that is running with its wake-up channel registered; no stop
StopIdle ==
    /\ running = TRUE
    /\ registered = TRUE
    /\ destroyed = FALSE
    /\ before_stop = [called |-> FALSE, tasks |-> {}]

ServerIdle ==
    /\ started = FALSE
    /\ starts = 0
    /\ pool_started = FALSE
    /\ spc = [s \in Stoppers |-> "idle"]
    /\ stop_acts = [c \in Components |-> 0]
    /\ to_close = [s \in Stoppers |-> {}]

Getters == {"g1", "g2"}

\* the loop's owner thread and two other threads that change the mask
ChanThreads == {Owner, "c1", "c2"}

MemThreads == {"m1", "m2"}

\* MEM_SIZES, scaled: two size classes with a gap between them, in units of
\* the smaller one
ChunkSizes == {1, 3}

PoolIdle ==
    /\ io_thread_count = 1
    /\ hw = 1
    /\ thread_count = 1
    /\ nthreads = 0
    /\ next_index = 0
    /\ gpc = [g \in Getters |-> "idle"]
    /\ got = <<>>

ChanIdle ==
    /\ ch_events = {}
    /\ ep_mask = [reg |-> FALSE, mask |-> {}]
    /\ in_channels = FALSE
    /\ chq = 0
    /\ cpc = [t \in ChanThreads |-> "idle"]
    /\ clocal = [t \in ChanThreads |-> {}]
    /\ cops = [t \in ChanThreads |-> 0]

\* Chunk::Chunk(cap): an empty chunk
NewChunkOf(cap) == [capacity |-> cap, length |-> 0, head |-> 0]

\* no chunk: what a caller of alloc_chunk has when it got nullptr
NoChunk == [capacity |-> 0, length |-> 0, head |-> 0]

\* the end of an alloc_chunk call: st is "chunk", "nullptr", "throw", or
\* "pending" while the call is between its two locked blocks
Returned(st, chunk) == [st |-> st, chunk |-> chunk]

MemIdle ==
    /\ free_list = [z \in ChunkSizes |-> <<>>]
    /\ current_usage_bytes = 0
    /\ held = [t \in MemThreads |-> [z \in ChunkSizes |-> 0]]
    /\ mpc = [t \in MemThreads |-> "idle"]
    /\ msize = [t \in MemThreads |-> 0]
    /\ mreq = [t \in MemThreads |-> 0]
    /\ mret = [t \in MemThreads |-> Returned("nullptr", NoChunk)]
    /\ stats = [total_allocations |-> 0, total_deallocations |-> 0]

\* an OutputBuffer whose data_buf is nullptr
NoBuf == [capacity |-> 0, head |-> 0, data |-> <<>>]

BufIdle ==
    /\ ib = NoChunk
    /\ ipc = "idle"
    /\ iret = 0
    /\ ob = NoBuf
    /\ oret = [op |-> "none", rc |-> 0]
    /\ opc = "idle"

ExhaustIdle ==
    /\ dpc = "idle"
    /\ idle_fd = 1
    /\ nfree = 0
    /\ backlog = 0
    /\ nothers = 0
    /\ naccepted = 0
    /\ rescue = [last |-> "none", removed |-> FALSE]

CbIdle ==
    /\ cbset = {}
    /\ cbpc = "new"
    /\ cblog = <<>>
    /\ cbfd = ConnFd
    /\ cbreads = 0

TpWorkers == {"w1", "w2"}

TpIdle ==
    /\ tp_run = TRUE
    /\ tp_tasks = <<>>
    /\ tp_mutex = "free"
    /\ wst = [w \in TpWorkers |-> "lock"]
    /\ wtask = [w \in TpWorkers |-> 0]
    /\ executed = <<>>
    /\ postpc = "idle"
    /\ posted = [accepted |-> 0, rejected |-> 0]
    /\ stpc = "idle"

\* the connection connect_established has returned for; server_reg: the
\* server's registry holds it (add_new_tcp_conn has inserted it); epollout:
\* the channel has EPOLLOUT enabled; shut_wr: shutdown(connfd_, SHUT_WR) has
\* been called
TcStart ==
    [state |-> "Connected", connfd |-> ConnFd, channel |-> TRUE, out |-> 0,
     head |-> 0, server_reg |-> FALSE, epollout |-> FALSE, shut_wr |-> FALSE,
     pc |-> "loop", log |-> <<>>]

DispIdle ==
    /\ tc = TcStart
    /\ hmask = {}
    /\ hn = 0

\* the threads that use the idle manager: two callers of its interface, its
\* ticker and its cleanup thread
ImCallers == {"c1", "c2"}

ImThreads == ImCallers \cup {"ticker", "cleaner"}

\* a thread's local variables: the entry it works on, the slot it has
\* computed or reached, the entries it has collected, whether it holds
\* connections_mutex_ for reset_all, the time it has read from the clock
ImNoLocal ==
    [entry |-> 0, slot |-> 0, list |-> <<>>, reset |-> FALSE, stamp |-> 0]

\* nothing called yet: adds the add_connection calls that inserted,
\* activity the time of the latest add_connection or update_activity that has
\* returned, removed whether remove_connection has returned since, callbacks
\* the timeout callbacks invoked, fresh and after_remove whether one of them
\* was for a connection active less than T ago or already removed, ops the
\* calls made
ImNoGhost ==
    [adds |-> 0, activity |-> 0, removed |-> FALSE, callbacks |-> 0,
     fresh |-> FALSE, after_remove |-> FALSE, ops |-> 0]

\* no ConnectionTimeoutManager has been made: no slots, no threads
IdleMgrIdle ==
    /\ im_map = 0
    /\ im_entries = <<>>
    /\ im_slots = <<>>
    /\ im_mutex = <<>>
    /\ im_total = 0
    /\ im_pc = <<>>
    /\ im_local = <<>>
    /\ im_connected = TRUE
    /\ im_ghost = <<>>

LifeCallers == {"app", "base"}

LifeNoGhost == [starts |-> 0, stops |-> 0, threw |-> FALSE, ignored |-> FALSE,
                dropped |-> FALSE, cleared |-> FALSE, handler |-> FALSE,
                accept_closed |-> FALSE, destroyed_use |-> FALSE,
                functor_use |-> FALSE,
                late_insert |-> FALSE]

\* a server nobody starts or stops: no caller, nothing recorded
LifeIdle ==
    /\ lf_started = FALSE
    /\ lf_cfg = FALSE
    /\ lf_threads = <<>>
    /\ lf_acceptor = "null"
    /\ lf_listen_fd = "none"
    /\ lf_channel = <<>>
    /\ lf_backlog = 0
    /\ lf_registry = 0
    /\ lf_pending = <<>>
    /\ lf_base = "poll"
    /\ lf_pc = <<>>
    /\ lf_ghost = <<>>

MoreIdle ==
    /\ BufIdle /\ ExhaustIdle /\ CbIdle /\ TpIdle /\ DispIdle /\ IdleMgrIdle
    /\ LifeIdle

RestIdle == PoolIdle /\ ChanIdle /\ MemIdle /\ MoreIdle

ExtIdle == StopIdle /\ ServerIdle /\ RestIdle

\* the connection do_accept has just constructed
ConnStart ==
    /\ budget = [ops |-> MaxOps, user |-> MaxUser, tasks |-> MaxTasks]
    /\ conn = [state |-> "Connecting", connfd |-> ConnFd, channel |-> FALSE,
               events |-> {}, output_buf |-> <<>>]
    /\ sock = [wire |-> <<>>, registered |-> {}, closes |-> 0, shutWr |-> 0]
    /\ on_connected = 0
    /\ on_closed = 0
    /\ connections = {}
    /\ conn_mutex = "free"
    /\ idle_map = FALSE
    /\ idle_slot = FALSE
    /\ pending = <<>>
    /\ functors = <<>>
    /\ drained = FALSE
    /\ wpc = "loop"
    /\ acc = "accept"
    /\ accfd = ConnFd
    /\ apc = [t \in Callers |-> "idle"]
    /\ amsg = [t \in Callers |-> <<>>]
    /\ nops = [t \in AppThreads |-> 0]
    /\ nuser = 0
    /\ sendLog = {}
    /\ peer = [st |-> "open", data |-> FALSE]
    /\ idleFired = FALSE
    /\ closeSeen = FALSE

\* ------------------------------------------------------------------------
\* The acceptor thread: Acceptor::do_accept after accept4 returned ConnFd
\* ------------------------------------------------------------------------
\* io_loop->runInLoop(connect_established) from the base thread: queueInLoop
AcceptSchedule ==
    /\ acc = "accept"
    /\ pending' = push_back(pending, Task("connect", <<>>))
    /\ acc' = "add_fd"
    /\ UNCHANGED <<wheelVars, loopVars>>
    /\ UNCHANGED extVars
    /\ UNCHANGED <<conn, sock, on_connected, on_closed, connections, conn_mutex,
                   idle_map, idle_slot, functors, drained, wpc, accfd, apc, amsg,
                   nops, nuser, sendLog, peer, idleFired, closeSeen, budget>>

\* add_new_tcp_conn: int fd = conn->fd(); if (fd <= 0) return;
AddReadFd ==
    /\ acc = "add_fd"
    /\ accfd' = conn.connfd
    /\ acc' = IF conn.connfd <= 0 THEN "done" ELSE "add_insert"
    /\ UNCHANGED <<wheelVars, loopVars>>
    /\ UNCHANGED extVars
    /\ UNCHANGED <<conn, sock, on_connected, on_closed, connections, conn_mutex,
                   idle_map, idle_slot, pending, functors, drained, wpc, apc, amsg,
                   nops, nuser, sendLog, peer, idleFired, closeSeen, budget>>

\* add_new_tcp_conn: the insert under conn_mutex_
AddInsert ==
    /\ acc = "add_insert"
    /\ conn_mutex = "free"
    /\ IF accfd \in connections
       THEN acc' = "done" /\ UNCHANGED connections
       ELSE acc' = "add_idle" /\ connections' = connections \cup {accfd}
    /\ UNCHANGED <<wheelVars, loopVars>>
    /\ UNCHANGED extVars
    /\ UNCHANGED <<conn, sock, on_connected, on_closed, conn_mutex,
                   idle_map, idle_slot, pending, functors, drained, wpc, accfd, apc,
                   amsg, nops, nuser, sendLog, peer, idleFired, closeSeen, budget>>

\* add_new_tcp_conn: idle_manager_->add_connection(conn), which reads conn->fd()
AddIdle ==
    /\ acc = "add_idle"
    /\ IF conn.connfd <= 0 \/ idle_map
       THEN UNCHANGED <<idle_map, idle_slot>>
       ELSE idle_map' = TRUE /\ idle_slot' = TRUE
    /\ acc' = "add_log"
    /\ UNCHANGED <<wheelVars, loopVars>>
    /\ UNCHANGED extVars
    /\ UNCHANGED <<conn, sock, on_connected, on_closed, connections, conn_mutex,
                   pending, functors, drained, wpc, accfd, apc, amsg,
                   nops, nuser, sendLog, peer, idleFired, closeSeen, budget>>

\* add_new_tcp_conn: LOG_INFO(..., connection_count()) takes conn_mutex_
AddLog ==
    /\ acc = "add_log"
    /\ conn_mutex = "free"
    /\ acc' = "done"
    /\ UNCHANGED <<wheelVars, loopVars>>
    /\ UNCHANGED extVars
    /\ UNCHANGED <<conn, sock, on_connected, on_closed, connections, conn_mutex,
                   idle_map, idle_slot, pending, functors, drained, wpc, accfd, apc,
                   amsg, nops, nuser, sendLog, peer, idleFired, closeSeen, budget>>

\* ------------------------------------------------------------------------
\* The worker thread: EventLoop::loop and the handlers it runs
\* ------------------------------------------------------------------------
\* where the worker goes after a handler: on with handle_close, or back
AfterHandler(r) == IF r.closing THEN "close_idle" ELSE "loop"

\* do_pending_functors: swap the queue out under the mutex
DoPendingFunctors ==
    /\ wpc = "loop"
    /\ functors = <<>>
    /\ pending # <<>> \/ ~drained
    /\ functors' = pending
    /\ pending' = <<>>
    /\ drained' = TRUE
    /\ UNCHANGED <<wheelVars, loopVars>>
    /\ UNCHANGED extVars
    /\ UNCHANGED <<conn, sock, on_connected, on_closed, connections, conn_mutex,
                   idle_map, idle_slot, wpc, acc, accfd, apc, amsg,
                   nops, nuser, sendLog, peer, idleFired, closeSeen, budget>>

\* the queued connect_established, with the user connected callback
RunConnect ==
    /\ wpc = "loop"
    /\ functors # <<>>
    /\ Head(functors).kind = "connect"
    /\ \E ch \in UserChoices :
          LET r0 == connect_established(conn, sock)
              r  == user_callback(r0.c, r0.k, ch.u, UserData(ch), ch.space, ch.poolOk)
          IN  /\ conn' = r.c
              /\ sock' = r.k
              /\ wpc' = AfterHandler(r)
              /\ UserLog(ch, r0.c.state)
    /\ on_connected' = on_connected + 1
    /\ functors' = Tail(functors)
    /\ UNCHANGED <<wheelVars, loopVars>>
    /\ UNCHANGED extVars
    /\ UNCHANGED <<on_closed, connections, conn_mutex, idle_map, idle_slot, pending,
                   drained, acc, accfd, apc, amsg, nops, peer, idleFired, closeSeen, budget>>

\* a queued sendInLoop
RunSend ==
    /\ wpc = "loop"
    /\ functors # <<>>
    /\ Head(functors).kind = "send"
    /\ \E space \in Spaces, poolOk \in BOOLEAN :
          LET r == sendInLoop(conn, sock, Head(functors).msg, space, poolOk)
          IN  /\ conn' = r.c
              /\ sock' = r.k
              /\ wpc' = AfterHandler(r)
              /\ sendLog' = sendLog \cup
                     {[op |-> "sendInLoop", st |-> conn.state,
                       ret |-> (r.c.output_buf # conn.output_buf \/ r.k # sock
                                \/ r.c.events # conn.events \/ r.closing)]}
    /\ functors' = Tail(functors)
    /\ UNCHANGED <<wheelVars, loopVars>>
    /\ UNCHANGED extVars
    /\ UNCHANGED <<on_connected, on_closed, connections, conn_mutex, idle_map,
                   idle_slot, pending, drained, acc, accfd, apc, amsg, nops,
                   nuser, peer, idleFired, closeSeen, budget>>

\* a queued shutdownInLoop
RunShutdown ==
    /\ wpc = "loop"
    /\ functors # <<>>
    /\ Head(functors).kind = "shutdown"
    /\ LET r == shutdownInLoop(conn, sock)
       IN  /\ conn' = r.c
           /\ sock' = r.k
           /\ wpc' = AfterHandler(r)
    /\ functors' = Tail(functors)
    /\ UNCHANGED <<wheelVars, loopVars>>
    /\ UNCHANGED extVars
    /\ UNCHANGED <<on_connected, on_closed, connections, conn_mutex, idle_map,
                   idle_slot, pending, drained, acc, accfd, apc, amsg, nops,
                   nuser, sendLog, peer, idleFired, closeSeen, budget>>

\* the mask a delivery carries makes handle_event call handle_close
\* (directly, or through a read that returns 0 or fails)
CloseTrigger(M, rd) ==
    \/ M \cap {"ERR", "HUP", "RDHUP"} # {}
    \/ "IN" \in M /\ rd # "data"

\* epoll_wait returns the connection's channel: Channel::handle_event ->
\* TcpConnection::handle_event
Dispatch ==
    /\ wpc = "loop"
    /\ functors = <<>>
    /\ drained
    /\ sock.registered # {}
    /\ \E wspace \in Spaces, ch \in UserChoices,
          rd \in (IF peer.data THEN {"data"} ELSE {"zero"}) \cup {"err"} :
          LET M == Delivered(wspace)
              r == handle_event(conn, sock, M, rd, ch.u, UserData(ch), ch.space,
                                ch.poolOk, wspace)
              reads == M \cap {"ERR", "HUP", "RDHUP"} = {} /\ "IN" \in M
              called == reads /\ rd = "data"
              nochoice == [u |-> "none", len |-> 1, space |-> 0, poolOk |-> TRUE]
          IN  /\ M # {}
              /\ reads \/ rd = "err"
              /\ called \/ ch = nochoice
              /\ conn' = r.c
              /\ sock' = r.k
              /\ wpc' = AfterHandler(r)
              /\ UserLog(IF called THEN ch ELSE nochoice, conn.state)
              /\ peer' = IF called THEN [peer EXCEPT !.data = FALSE] ELSE peer
              /\ closeSeen' = (closeSeen \/
                                (/\ conn.state = "Disconnecting"
                                 /\ peer.st # "open"
                                 /\ CloseTrigger(M, rd)))
    /\ drained' = FALSE
    /\ UNCHANGED <<wheelVars, loopVars>>
    /\ UNCHANGED extVars
    /\ UNCHANGED <<on_connected, on_closed, connections, conn_mutex, idle_map,
                   idle_slot, pending, functors, acc, accfd, apc, amsg, nops,
                   idleFired, budget>>

\* handle_close -> close_cb_ -> ts_close_cb -> remove_tcp_conn:
\* idle_manager_->remove_connection(fd) erases the fd from the idle map only
CloseRemoveIdle ==
    /\ wpc = "close_idle"
    /\ idle_map' = FALSE
    /\ wpc' = "close_registry"
    /\ UNCHANGED <<wheelVars, loopVars>>
    /\ UNCHANGED extVars
    /\ UNCHANGED <<conn, sock, on_connected, on_closed, connections, conn_mutex,
                   idle_slot, pending, functors, drained, acc, accfd, apc, amsg,
                   nops, nuser, sendLog, peer, idleFired, closeSeen, budget>>

\* what remove_tcp_conn does under conn_mutex_.  When the fd is found it is
\* erased and LOG_INFO evaluates connection_count(), which locks conn_mutex_
\* again on the thread that holds it: the thread never returns (std::mutex).
remove_tcp_conn(regs, fd) ==
    IF fd \in regs
    THEN [connections |-> regs \ {fd}, mutex |-> Worker, pc |-> "deadlock"]
    ELSE [connections |-> regs, mutex |-> "free", pc |-> "close_user"]

CloseRemoveRegistry ==
    /\ wpc = "close_registry"
    /\ conn_mutex = "free"
    /\ LET r == remove_tcp_conn(connections, conn.connfd)
       IN  /\ connections' = r.connections
           /\ conn_mutex' = r.mutex
           /\ wpc' = r.pc
    /\ UNCHANGED <<wheelVars, loopVars>>
    /\ UNCHANGED extVars
    /\ UNCHANGED <<conn, sock, on_connected, on_closed, idle_map, idle_slot,
                   pending, functors, drained, acc, accfd, apc, amsg,
                   nops, nuser, sendLog, peer, idleFired, closeSeen, budget>>

\* ts_close_cb after remove_tcp_conn: the second remove_connection, then the
\* user close callback (a send it makes finds the state Disconnected)
CloseUserCb ==
    /\ wpc = "close_user"
    /\ idle_map' = FALSE
    /\ on_closed' = on_closed + 1
    /\ \E ch \in {c \in UserChoices : c.u # "shutdown" /\ c.space = 0 /\ c.poolOk
                                       /\ c.len = 1} :
          LET r == user_callback(conn, sock, ch.u, UserData(ch), ch.space, ch.poolOk)
          IN  /\ conn' = r.c
              /\ sock' = r.k
              /\ UserLog(ch, conn.state)
    /\ wpc' = "close_fd"
    /\ UNCHANGED <<wheelVars, loopVars>>
    /\ UNCHANGED extVars
    /\ UNCHANGED <<on_connected, connections, conn_mutex, idle_slot,
                   pending, functors, drained, acc, accfd, apc, amsg,
                   nops, peer, idleFired, closeSeen, budget>>

\* handle_close: ::close(connfd_); connfd_ = -1;
CloseFd ==
    /\ wpc = "close_fd"
    /\ sock' = [sock EXCEPT !.closes = @ + 1]
    /\ conn' = [conn EXCEPT !.connfd = -1]
    /\ wpc' = "loop"
    /\ UNCHANGED <<wheelVars, loopVars>>
    /\ UNCHANGED extVars
    /\ UNCHANGED <<on_connected, on_closed, connections, conn_mutex, idle_map,
                   idle_slot, pending, functors, drained, acc, accfd, apc, amsg,
                   nops, nuser, sendLog, peer, idleFired, closeSeen, budget>>

\* ------------------------------------------------------------------------
\* Threads that are not the worker: send() and shutdown()
\* ------------------------------------------------------------------------
\* send(): the state check; an accepted payload is copied for the queued task
SendCall(t, len) ==
    /\ apc[t] = "idle"
    /\ Issued < budget.ops
    /\ nops' = [nops EXCEPT ![t] = @ + 1]
    /\ sendLog' = sendLog \cup {[op |-> "send", st |-> conn.state,
                                ret |-> send_accepts(conn.state)]}
    /\ IF send_accepts(conn.state)
       THEN /\ apc' = [apc EXCEPT ![t] = "send_enq"]
            /\ amsg' = [amsg EXCEPT ![t] = Msg(t, nops[t] + 1, len)]
       ELSE UNCHANGED <<apc, amsg>>
    /\ UNCHANGED <<wheelVars, loopVars>>
    /\ UNCHANGED extVars
    /\ UNCHANGED <<conn, sock, on_connected, on_closed, connections, conn_mutex,
                   idle_map, idle_slot, pending, functors, drained, wpc, acc, accfd,
                   nuser, peer, idleFired, closeSeen, budget>>

\* send(): loop_->queueInLoop(sendInLoop)
SendEnqueue(t) ==
    /\ apc[t] = "send_enq"
    /\ pending' = push_back(pending, Task("send", amsg[t]))
    /\ apc' = [apc EXCEPT ![t] = "idle"]
    /\ amsg' = [amsg EXCEPT ![t] = <<>>]
    /\ UNCHANGED <<wheelVars, loopVars>>
    /\ UNCHANGED extVars
    /\ UNCHANGED <<conn, sock, on_connected, on_closed, connections, conn_mutex,
                   idle_map, idle_slot, functors, drained, wpc, acc, accfd,
                   nops, nuser, sendLog, peer, idleFired, closeSeen, budget>>

\* shutdown(): the state check
ShutdownCall(t) ==
    /\ apc[t] = "idle"
    /\ Issued < budget.ops
    /\ nops' = [nops EXCEPT ![t] = @ + 1]
    /\ apc' = [apc EXCEPT ![t] = IF shutdown_accepts(conn.state)
                                  THEN "shutdown_enq" ELSE "idle"]
    /\ UNCHANGED <<wheelVars, loopVars>>
    /\ UNCHANGED extVars
    /\ UNCHANGED <<conn, sock, on_connected, on_closed, connections, conn_mutex,
                   idle_map, idle_slot, pending, functors, drained, wpc, acc, accfd,
                   amsg, nuser, sendLog, peer, idleFired, closeSeen, budget>>

\* shutdown(): loop_->runInLoop(shutdownInLoop) from another thread: queueInLoop
ShutdownEnqueue(t) ==
    /\ apc[t] = "shutdown_enq"
    /\ pending' = push_back(pending, Task("shutdown", <<>>))
    /\ apc' = [apc EXCEPT ![t] = "idle"]
    /\ UNCHANGED <<wheelVars, loopVars>>
    /\ UNCHANGED extVars
    /\ UNCHANGED <<conn, sock, on_connected, on_closed, connections, conn_mutex,
                   idle_map, idle_slot, functors, drained, wpc, acc, accfd,
                   amsg, nops, nuser, sendLog, peer, idleFired, closeSeen, budget>>

\* ------------------------------------------------------------------------
\* The idle manager as this connection sees it
\* ------------------------------------------------------------------------
\* process_timeout_connections takes the expired entry from its slot, erases
\* conn->fd() from the map and calls on_connection_idle_timeout: conn->shutdown()
IdleTimeout ==
    /\ idle_slot
    /\ apc[Ticker] = "idle"
    /\ idle_slot' = FALSE
    /\ idle_map' = (idle_map /\ conn.connfd # ConnFd)
    /\ idleFired' = (conn.state = "Connected")
    /\ apc' = [apc EXCEPT ![Ticker] = IF shutdown_accepts(conn.state)
                                       THEN "shutdown_enq" ELSE "idle"]
    /\ UNCHANGED <<wheelVars, loopVars>>
    /\ UNCHANGED extVars
    /\ UNCHANGED <<conn, sock, on_connected, on_closed, connections, conn_mutex,
                   pending, functors, drained, wpc, acc, accfd,
                   amsg, nops, nuser, sendLog, peer, closeSeen, budget>>

\* cleanup_closed_connections: a descriptor of the map whose connection is not
\* connected is removed from the map, and the slots are scrubbed of the
\* entries whose conn->fd() is that descriptor
IdleCleanup ==
    /\ idle_map
    /\ conn.state # "Connected"
    /\ idle_map' = FALSE
    /\ idle_slot' = (idle_slot /\ conn.connfd # ConnFd)
    /\ UNCHANGED <<wheelVars, loopVars>>
    /\ UNCHANGED extVars
    /\ UNCHANGED <<conn, sock, on_connected, on_closed, connections, conn_mutex,
                   pending, functors, drained, wpc, acc, accfd, apc,
                   amsg, nops, nuser, sendLog, peer, idleFired, closeSeen, budget>>

\* ------------------------------------------------------------------------
\* The peer
\* ------------------------------------------------------------------------
PeerSend ==
    /\ peer.st = "open"
    /\ ~peer.data
    /\ peer' = [peer EXCEPT !.data = TRUE]
    /\ UNCHANGED <<wheelVars, loopVars>>
    /\ UNCHANGED extVars
    /\ UNCHANGED <<conn, sock, on_connected, on_closed, connections, conn_mutex,
                   idle_map, idle_slot, pending, functors, drained, wpc, acc, accfd,
                   apc, amsg, nops, nuser, sendLog, idleFired, closeSeen, budget>>

PeerClose ==
    /\ peer.st = "open"
    /\ peer' = [peer EXCEPT !.st = "fin"]
    /\ UNCHANGED <<wheelVars, loopVars>>
    /\ UNCHANGED extVars
    /\ UNCHANGED <<conn, sock, on_connected, on_closed, connections, conn_mutex,
                   idle_map, idle_slot, pending, functors, drained, wpc, acc, accfd,
                   apc, amsg, nops, nuser, sendLog, idleFired, closeSeen, budget>>

PeerReset ==
    /\ peer.st \in {"open", "fin"}
    /\ peer' = [peer EXCEPT !.st = "reset"]
    /\ UNCHANGED <<wheelVars, loopVars>>
    /\ UNCHANGED extVars
    /\ UNCHANGED <<conn, sock, on_connected, on_closed, connections, conn_mutex,
                   idle_map, idle_slot, pending, functors, drained, wpc, acc, accfd,
                   apc, amsg, nops, nuser, sendLog, idleFired, closeSeen, budget>>

\* ------------------------------------------------------------------------
\* The specification of one connection
\* ------------------------------------------------------------------------
ConnInit == ConnStart /\ WheelIdle /\ LoopIdle /\ ExtIdle

Init == ConnInit

Next ==
    \/ AcceptSchedule
    \/ AddReadFd
    \/ AddInsert
    \/ AddIdle
    \/ AddLog
    \/ DoPendingFunctors
    \/ RunConnect
    \/ RunSend
    \/ RunShutdown
    \/ Dispatch
    \/ CloseRemoveIdle
    \/ CloseRemoveRegistry
    \/ CloseUserCb
    \/ CloseFd
    \/ \E t \in AppThreads, len \in SendLens : SendCall(t, len)
    \/ \E t \in AppThreads : SendEnqueue(t)
    \/ \E t \in AppThreads : ShutdownCall(t)
    \/ \E t \in Callers : ShutdownEnqueue(t)
    \/ IdleTimeout
    \/ IdleCleanup
    \/ PeerSend
    \/ PeerClose
    \/ PeerReset

Spec == Init /\ [][Next]_vars

\* ------------------------------------------------------------------------
\* The specification of the send path: do_accept has returned (the
\* connection is in the registry and in the idle manager, connect_established
\* is queued on the worker loop), the idle timeout is not reached, and the
\* application threads send and shut down.  With the descriptor in the
\* registry, remove_tcp_conn does not return: the steps of handle_close
\* after it are no part of NextSend.
\* ------------------------------------------------------------------------
SendInit ==
    /\ WheelIdle
    /\ LoopIdle
    /\ ExtIdle
    /\ budget = [ops |-> MaxSendOps, user |-> MaxUser, tasks |-> MaxTasks]
    /\ conn = [state |-> "Connecting", connfd |-> ConnFd, channel |-> FALSE,
               events |-> {}, output_buf |-> <<>>]
    /\ sock = [wire |-> <<>>, registered |-> {}, closes |-> 0, shutWr |-> 0]
    /\ on_connected = 0
    /\ on_closed = 0
    /\ connections = {ConnFd}
    /\ conn_mutex = "free"
    /\ idle_map = TRUE
    /\ idle_slot = TRUE
    /\ pending = <<Task("connect", <<>>)>>
    /\ functors = <<>>
    /\ drained = FALSE
    /\ wpc = "loop"
    /\ acc = "done"
    /\ accfd = ConnFd
    /\ apc = [t \in Callers |-> "idle"]
    /\ amsg = [t \in Callers |-> <<>>]
    /\ nops = [t \in AppThreads |-> 0]
    /\ nuser = 0
    /\ sendLog = {}
    /\ peer = [st |-> "open", data |-> FALSE]
    /\ idleFired = FALSE
    /\ closeSeen = FALSE

NextSend ==
    \/ DoPendingFunctors
    \/ RunConnect
    \/ RunSend
    \/ RunShutdown
    \/ Dispatch
    \/ CloseRemoveIdle
    \/ CloseRemoveRegistry
    \/ \E t \in AppThreads, len \in SendLens : SendCall(t, len)
    \/ \E t \in AppThreads : SendEnqueue(t)
    \/ \E t \in AppThreads : ShutdownCall(t)
    \/ \E t \in AppThreads : ShutdownEnqueue(t)
    \/ PeerSend
    \/ PeerClose
    \/ PeerReset

SpecSend == SendInit /\ [][NextSend]_vars

\* ------------------------------------------------------------------------
\* ConnectionTimeoutManager: the time wheel
\* ------------------------------------------------------------------------
WheelSizes == (1..MaxWheel) \cup {ServerWheelSize}

Max(a, b) == IF a > b THEN a ELSE b

\* calculate_slot(last_activity_time) with the clock at t
calculate_slot(cfg, cur, last, t) ==
    LET elapsed_ms == t - last
        ticks_remaining == Max(0, (cfg.T - elapsed_ms) \div cfg.I)
    IN  (cur + ticks_remaining) % cfg.W

\* add_connection: the entry goes into the map and into its slot
WheelAdd ==
    /\ wentry = NoEntry
    /\ ConnFd \notin wmap
    /\ now <= MaxAddTime
    /\ LET slot_pos == calculate_slot(wcfg, current_slot, now, now)
           ticks_needed == wcfg.T \div wcfg.I
       IN  /\ wentry' = [slot_position |-> slot_pos,
                         remaining_ticks |-> ticks_needed,
                         last_activity_time |-> now]
           /\ wmap' = wmap \cup {ConnFd}
           /\ time_wheel' = [time_wheel EXCEPT ![slot_pos] = @ \cup {ConnFd}]
    /\ UNCHANGED <<wcfg, now, next_tick, tpc, current_slot, timeout_at>>
    /\ UNCHANGED <<connVars, loopVars>>
    /\ UNCHANGED extVars

\* process_timeout_connections on slot cur with the clock at t
process_timeout_connections(cfg, cur, wheel, e, map, t) ==
    IF ConnFd \notin wheel[cur]
    THEN [wheel |-> wheel, entry |-> e, map |-> map, expired |-> FALSE]
    ELSE IF e.remaining_ticks > 0
    THEN [wheel |-> wheel, entry |-> [e EXCEPT !.remaining_ticks = @ - 1],
          map |-> map, expired |-> FALSE]
    ELSE IF t - e.last_activity_time >= cfg.T
    THEN [wheel |-> [wheel EXCEPT ![cur] = @ \ {ConnFd}], entry |-> e,
          map |-> map \ {ConnFd}, expired |-> TRUE]
    ELSE [wheel |-> wheel, entry |-> e, map |-> map, expired |-> FALSE]

\* time_wheel_loop: the sleep is over, process_timeout_connections runs and
\* hands an expired connection to the timeout callback
WheelProcess ==
    /\ tpc = "sleep"
    /\ now = next_tick
    /\ LET r == process_timeout_connections(wcfg, current_slot, time_wheel, wentry,
                                            wmap, now)
       IN  /\ time_wheel' = r.wheel
           /\ wentry' = r.entry
           /\ wmap' = r.map
           /\ timeout_at' = IF r.expired THEN now ELSE timeout_at
    /\ tpc' = "advance"
    /\ UNCHANGED <<wcfg, now, next_tick, current_slot>>
    /\ UNCHANGED <<connVars, loopVars>>
    /\ UNCHANGED extVars

\* time_wheel_loop: current_slot_ moves on and the thread sleeps for the rest
\* of the tick interval
WheelAdvance ==
    /\ tpc = "advance"
    /\ current_slot' = (current_slot + 1) % wcfg.W
    /\ next_tick' = now + wcfg.I
    /\ tpc' = "sleep"
    /\ UNCHANGED <<wcfg, now, time_wheel, wentry, wmap, timeout_at>>
    /\ UNCHANGED <<connVars, loopVars>>
    /\ UNCHANGED extVars

\* the clock; the ticker wakes up on time
WheelTimePass ==
    /\ tpc = "sleep"
    /\ now < next_tick
    /\ now < MaxTime
    /\ now' = now + 1
    /\ UNCHANGED <<wcfg, next_tick, tpc, current_slot, time_wheel, wentry, wmap,
                   timeout_at>>
    /\ UNCHANGED <<connVars, loopVars>>
    /\ UNCHANGED extVars

WheelInit ==
    /\ ConnStart
    /\ LoopIdle
    /\ ExtIdle
    /\ wcfg \in [T : 1..MaxTimeout, I : 1..MaxInterval, W : WheelSizes]
    /\ now = 0
    /\ next_tick = 0
    /\ tpc = "sleep"
    /\ current_slot = 0
    /\ time_wheel = [i \in 0..(wcfg.W - 1) |-> {}]
    /\ wentry = NoEntry
    /\ wmap = {}
    /\ timeout_at = -1

NextWheel ==
    \/ WheelAdd
    \/ WheelProcess
    \/ WheelAdvance
    \/ WheelTimePass

SpecWheel == WheelInit /\ [][NextWheel]_vars

\* ------------------------------------------------------------------------
\* EventLoop: queueInLoop from producer threads, loop() on the owner thread
\* ------------------------------------------------------------------------
\* the n-th task of producer p
LoopTask(p, n) == [p |-> p, n |-> n]

\* queueInLoop on a producer thread: the push under mutex_
LoopEnqueue(p) ==
    /\ ppc[p] = "idle"
    /\ enq[p] < MaxTasks
    /\ enq[p] < budget.tasks
    /\ pending' = push_back(pending, LoopTask(p, enq[p] + 1))
    /\ enq' = [enq EXCEPT ![p] = @ + 1]
    /\ ppc' = [ppc EXCEPT ![p] = "wakeup"]
    /\ UNCHANGED <<functors, lpc, ran, wakeup_fd>>
    /\ UNCHANGED <<conn, sock, on_connected, on_closed, connections, conn_mutex,
                   idle_map, idle_slot, drained, wpc, acc, accfd, apc, amsg,
                   nops, nuser, sendLog, peer, idleFired, closeSeen, budget>>
    /\ UNCHANGED wheelVars
    /\ UNCHANGED extVars

\* wakeup() that writes nothing
wakeup_lost(counter) == counter

\* wakeup(): ::write adds one to the counter of the eventfd
wakeup(counter) == counter + 1

\* queueInLoop on a producer thread: wakeup() writes the eventfd
LoopWakeup(p) ==
    /\ ppc[p] = "wakeup"
    /\ wakeup_fd' = wakeup(wakeup_fd)
    /\ ppc' = [ppc EXCEPT ![p] = "idle"]
    /\ UNCHANGED <<pending, functors, lpc, ran, enq>>
    /\ UNCHANGED <<conn, sock, on_connected, on_closed, connections, conn_mutex,
                   idle_map, idle_slot, drained, wpc, acc, accfd, apc, amsg,
                   nops, nuser, sendLog, peer, idleFired, closeSeen, budget>>
    /\ UNCHANGED wheelVars
    /\ UNCHANGED extVars

\* the drain the owner thread is at: 1 before the poll, 2 after the dispatch
DrainOf(pc) == IF pc \in {"drain1", "run1"} THEN 1 ELSE 2

\* where loop() goes when a do_pending_functors has run its batch
AfterDrain(pc) == IF DrainOf(pc) = 1 THEN "poll" ELSE "check"

\* do_pending_functors: functors.swap(pending_functors_) under mutex_
LoopSwap ==
    /\ lpc \in {"drain1", "drain2"}
    /\ functors' = pending
    /\ pending' = <<>>
    /\ lpc' = IF pending = <<>> THEN AfterDrain(lpc)
              ELSE IF lpc = "drain1" THEN "run1" ELSE "run2"
    /\ UNCHANGED <<ran, enq, ppc, wakeup_fd>>
    /\ UNCHANGED <<conn, sock, on_connected, on_closed, connections, conn_mutex,
                   idle_map, idle_slot, drained, wpc, acc, accfd, apc, amsg,
                   nops, nuser, sendLog, peer, idleFired, closeSeen, budget>>
    /\ UNCHANGED wheelVars
    /\ UNCHANGED extVars

\* what the task f does to the connection and its socket when it runs:
\* connect_established queued by the acceptor, shutdownInLoop queued by
\* shutdown() from TcpServer::stop; the other tasks leave them alone
TaskOnConn(f, c, k) ==
    IF f.p = "acceptor" THEN connect_established(c, k)
    ELSE IF f.p \in Stoppers THEN shutdownInLoop(c, k)
    ELSE Res(c, k, FALSE)

\* the update task Channel::update queued from the constructor of the loop
\* puts the wake-up channel into the notifier and into channels_
TaskOnRegistered(f, reg) == reg \/ f.p = "ctor"

\* do_pending_functors: the next fn() of the batch; the task may itself call
\* queueInLoop on the owner thread (push and wakeup)
LoopRun ==
    /\ lpc \in {"run1", "run2"}
    /\ ran' = Append(ran, [p |-> Head(functors).p, n |-> Head(functors).n,
                           drain |-> DrainOf(lpc)])
    /\ functors' = Tail(functors)
    /\ lpc' = IF Tail(functors) = <<>> THEN AfterDrain(lpc) ELSE lpc
    /\ LET r == TaskOnConn(Head(functors), conn, sock)
       IN  conn' = r.c /\ sock' = r.k
    /\ registered' = TaskOnRegistered(Head(functors), registered)
    /\ \/ UNCHANGED <<pending, enq, wakeup_fd>>
       \/ /\ enq[Owner] < MaxOwnerTasks
          /\ enq[Owner] < budget.tasks
          /\ pending' = push_back(pending, LoopTask(Owner, enq[Owner] + 1))
          /\ enq' = [enq EXCEPT ![Owner] = @ + 1]
          /\ wakeup_fd' = wakeup(wakeup_fd)
    /\ UNCHANGED ppc
    /\ UNCHANGED <<on_connected, on_closed, connections, conn_mutex,
                   idle_map, idle_slot, drained, wpc, acc, accfd, apc, amsg,
                   nops, nuser, sendLog, peer, idleFired, closeSeen, budget>>
    /\ UNCHANGED wheelVars
    /\ UNCHANGED restVars
    /\ UNCHANGED <<running, destroyed, before_stop, serverVars>>

\* epoller_.poll returns, on the wake-up descriptor (handle_wakeup reads the
\* counter down to zero) or on its timeout; a channel that is not in the
\* notifier delivers no event and its counter is not read
LoopPoll ==
    /\ lpc = "poll"
    /\ wakeup_fd' = IF registered THEN 0 ELSE wakeup_fd
    /\ lpc' = "drain2"
    /\ UNCHANGED <<pending, functors, ran, enq, ppc>>
    /\ UNCHANGED <<conn, sock, on_connected, on_closed, connections, conn_mutex,
                   idle_map, idle_slot, drained, wpc, acc, accfd, apc, amsg,
                   nops, nuser, sendLog, peer, idleFired, closeSeen, budget>>
    /\ UNCHANGED wheelVars
    /\ UNCHANGED extVars

\* while (running_): the test after the second do_pending_functors
LoopCheck ==
    /\ lpc = "check"
    /\ lpc' = IF running THEN "drain1" ELSE "exit"
    /\ UNCHANGED <<pending, functors, ran, enq, ppc, wakeup_fd>>
    /\ UNCHANGED connVars
    /\ UNCHANGED wheelVars
    /\ UNCHANGED extVars

LoopInit == ConnStart /\ WheelIdle /\ LoopIdle /\ ExtIdle

NextLoop ==
    \/ \E p \in Producers : LoopEnqueue(p)
    \/ \E p \in Producers : LoopWakeup(p)
    \/ LoopSwap
    \/ LoopRun
    \/ LoopPoll
    \/ LoopCheck

SpecLoop == LoopInit /\ [][NextLoop]_vars

\* ------------------------------------------------------------------------
\* EventLoop from its construction: the wake-up channel, loop() entered by
\* the pool's thread, and EventLoop::stop (SpecWake, SpecStop)
\* ------------------------------------------------------------------------
MaxStopTasks == 1

\* the elements of a sequence
Range(q) == {q[i] : i \in 1..Len(q)}

\* the tasks that have been pushed on the loop's queue so far
Pushed ==
    {LoopTask(r.p, r.n) : r \in Range(ran)} \cup Range(functors) \cup Range(pending)

\* the tasks that have been executed
RanTasks == {LoopTask(r.p, r.n) : r \in Range(ran)}

\* where the owner thread is while it uses the EventLoop object
InLoop == {"start", "drain1", "run1", "poll", "drain2", "run2", "check"}

\* the loop as EventLoopThreadPool::start leaves it: the constructor of the
\* loop has queued the update of the wake-up channel (enable_read off the
\* loop thread: queueInLoop, one wakeup), the thread is spawned and has not
\* run yet
LoopConstructed ==
    /\ lpc = "spawned"
    /\ ran = <<>>
    /\ enq = [p \in Producers \cup {Owner} |-> 0]
    /\ ppc = [p \in Producers |-> "idle"]
    /\ functors = <<>>
    /\ running = FALSE
    /\ registered = FALSE
    /\ destroyed = FALSE
    /\ before_stop = [called |-> FALSE, tasks |-> {}]

\* the connection as do_accept leaves it: in the registry, with
\* connect_established queued on the worker loop
ConnAccepted ==
    /\ conn = [state |-> "Connecting", connfd |-> ConnFd, channel |-> FALSE,
               events |-> {}, output_buf |-> <<>>]
    /\ sock = [wire |-> <<>>, registered |-> {}, closes |-> 0, shutWr |-> 0]
    /\ on_connected = 0
    /\ on_closed = 0
    /\ conn_mutex = "free"
    /\ idle_map = FALSE
    /\ idle_slot = FALSE
    /\ drained = FALSE
    /\ wpc = "loop"
    /\ acc = "done"
    /\ accfd = ConnFd
    /\ apc = [t \in Callers |-> "idle"]
    /\ amsg = [t \in Callers |-> <<>>]
    /\ nops = [t \in AppThreads |-> 0]
    /\ nuser = 0
    /\ sendLog = {}
    /\ peer = [st |-> "open", data |-> FALSE]
    /\ idleFired = FALSE
    /\ closeSeen = FALSE

\* run_in_thread: the thread takes its loop from threads_ under the pool's
\* mutex_, and returns without running it when threads_ has been cleared
RunInThread ==
    /\ lpc = "spawned"
    /\ lpc' = IF destroyed THEN "skipped" ELSE "start"
    /\ UNCHANGED <<pending, functors, ran, enq, ppc, wakeup_fd>>
    /\ UNCHANGED <<conn, sock, on_connected, on_closed, connections, conn_mutex,
                   idle_map, idle_slot, drained, wpc, acc, accfd, apc, amsg,
                   nops, nuser, sendLog, peer, idleFired, closeSeen, budget>>
    /\ UNCHANGED wheelVars
    /\ UNCHANGED extVars

\* loop(): running_.store(true) and thread_id_, before the first iteration
LoopEnter ==
    /\ lpc = "start"
    /\ running' = TRUE
    /\ lpc' = "drain1"
    /\ UNCHANGED <<pending, functors, ran, enq, ppc, wakeup_fd>>
    /\ UNCHANGED <<conn, sock, on_connected, on_closed, connections, conn_mutex,
                   idle_map, idle_slot, drained, wpc, acc, accfd, apc, amsg,
                   nops, nuser, sendLog, peer, idleFired, closeSeen, budget>>
    /\ UNCHANGED wheelVars
    /\ UNCHANGED restVars
    /\ UNCHANGED <<registered, destroyed, before_stop, serverVars>>

\* the owner thread uses the EventLoop after EventLoopThreadPool::stop has
\* destroyed it (threads_.clear() comes before the join): besides going on
\* as if the object were there, the thread can crash or hang
LoopUseAfterFree ==
    /\ destroyed
    /\ lpc \in InLoop
    /\ lpc' \in {"crashed", "hung"}
    /\ UNCHANGED <<pending, functors, ran, enq, ppc, wakeup_fd>>
    /\ UNCHANGED <<conn, sock, on_connected, on_closed, connections, conn_mutex,
                   idle_map, idle_slot, drained, wpc, acc, accfd, apc, amsg,
                   nops, nuser, sendLog, peer, idleFired, closeSeen, budget>>
    /\ UNCHANGED wheelVars
    /\ UNCHANGED extVars

\* the steps of the owner thread the scheduler owes it
OwnerStep ==
    RunInThread \/ LoopEnter \/ LoopSwap \/ LoopRun \/ LoopCheck

\* epoller_.poll returns because the wake-up descriptor is readable
LoopPollWake == LoopPoll /\ registered /\ wakeup_fd > 0

WakeInit ==
    /\ WheelIdle
    /\ ServerIdle
    /\ RestIdle
    /\ LoopConstructed
    /\ ConnAccepted
    /\ budget = [ops |-> 0, user |-> 0, tasks |-> MaxTasks]
    /\ connections = {}
    /\ pending = <<LoopTask("ctor", 1)>>
    /\ wakeup_fd = 1

NextWake ==
    \/ RunInThread
    \/ LoopEnter
    \/ LoopSwap
    \/ LoopRun
    \/ LoopPoll
    \/ LoopCheck
    \/ \E p \in Producers : LoopEnqueue(p)
    \/ \E p \in Producers : LoopWakeup(p)

\* the owner thread and the producers inside queueInLoop keep running; the
\* poll is only owed its return on the wake-up descriptor, not its timeout
SpecWake ==
    /\ WakeInit
    /\ [][NextWake]_vars
    /\ WF_vars(OwnerStep)
    /\ WF_vars(LoopPollWake)
    /\ \A p \in Producers : WF_vars(LoopWakeup(p))

\* ------------------------------------------------------------------------
\* TcpServer::stop and EventLoopThreadPool::stop, called by the threads of
\* Stoppers on a server with one worker loop and one accepted connection
\* ------------------------------------------------------------------------
\* compare_exchange_strong that always succeeds
stop_cas_always(flag) == TRUE

\* started_.compare_exchange_strong(expected = true, false) succeeds
stop_cas(flag) == flag

\* TcpServer::stop: the compare-and-swap on started_
StopBegin(s) ==
    /\ spc[s] = "idle"
    /\ IF stop_cas(started)
       THEN started' = FALSE /\ spc' = [spc EXCEPT ![s] = "idle_manager"]
       ELSE started' = started /\ spc' = [spc EXCEPT ![s] = "noop"]
    /\ UNCHANGED <<starts, pool_started, stop_acts, to_close>>
    /\ UNCHANGED <<pending, connections, stopVars, loopVars>>
    /\ UNCHANGED <<conn, sock, on_connected, on_closed, conn_mutex, idle_map,
                   idle_slot, functors, drained, wpc, acc, accfd, apc, amsg,
                   nops, nuser, sendLog, peer, idleFired, closeSeen, budget>>
    /\ UNCHANGED wheelVars
    /\ UNCHANGED restVars

\* TcpServer::stop 1): idle_manager_->stop() and reset
StopIdleManager(s) ==
    /\ spc[s] = "idle_manager"
    /\ stop_acts' = [stop_acts EXCEPT !["idle_manager"] = @ + 1]
    /\ spc' = [spc EXCEPT ![s] = "acceptor"]
    /\ UNCHANGED <<started, starts, pool_started, to_close>>
    /\ UNCHANGED <<pending, connections, stopVars, loopVars>>
    /\ UNCHANGED <<conn, sock, on_connected, on_closed, conn_mutex, idle_map,
                   idle_slot, functors, drained, wpc, acc, accfd, apc, amsg,
                   nops, nuser, sendLog, peer, idleFired, closeSeen, budget>>
    /\ UNCHANGED wheelVars
    /\ UNCHANGED restVars

\* TcpServer::stop 2): acceptor_.reset()
StopAcceptor(s) ==
    /\ spc[s] = "acceptor"
    /\ stop_acts' = [stop_acts EXCEPT !["acceptor"] = @ + 1]
    /\ spc' = [spc EXCEPT ![s] = "snapshot"]
    /\ UNCHANGED <<started, starts, pool_started, to_close>>
    /\ UNCHANGED <<pending, connections, stopVars, loopVars>>
    /\ UNCHANGED <<conn, sock, on_connected, on_closed, conn_mutex, idle_map,
                   idle_slot, functors, drained, wpc, acc, accfd, apc, amsg,
                   nops, nuser, sendLog, peer, idleFired, closeSeen, budget>>
    /\ UNCHANGED wheelVars
    /\ UNCHANGED restVars

\* TcpServer::stop 3): the registry is moved into connections_to_close and
\* cleared under conn_mutex_
StopSnapshot(s) ==
    /\ spc[s] = "snapshot"
    /\ conn_mutex = "free"
    /\ to_close' = [to_close EXCEPT ![s] = connections]
    /\ connections' = {}
    /\ stop_acts' = [stop_acts EXCEPT !["registry"] = @ + 1]
    /\ spc' = [spc EXCEPT ![s] = IF connections = {} THEN "pool_stop"
                                 ELSE "shutdown"]
    /\ UNCHANGED <<started, starts, pool_started>>
    /\ UNCHANGED <<pending, stopVars, loopVars>>
    /\ UNCHANGED <<conn, sock, on_connected, on_closed, conn_mutex, idle_map,
                   idle_slot, functors, drained, wpc, acc, accfd, apc, amsg,
                   nops, nuser, sendLog, peer, idleFired, closeSeen, budget>>
    /\ UNCHANGED wheelVars
    /\ UNCHANGED restVars

\* TcpServer::stop 4): conn->shutdown() off the loop thread: the state test
\* and the push of queueInLoop
StopShutdown(s) ==
    /\ spc[s] = "shutdown"
    /\ IF shutdown_accepts(conn.state)
       THEN /\ pending' = push_back(pending, LoopTask(s, 1))
            /\ spc' = [spc EXCEPT ![s] = "shutdown_wake"]
       ELSE /\ pending' = pending
            /\ spc' = [spc EXCEPT ![s] = "pool_stop"]
    /\ UNCHANGED <<started, starts, pool_started, stop_acts, to_close>>
    /\ UNCHANGED <<connections, stopVars, loopVars>>
    /\ UNCHANGED <<conn, sock, on_connected, on_closed, conn_mutex, idle_map,
                   idle_slot, functors, drained, wpc, acc, accfd, apc, amsg,
                   nops, nuser, sendLog, peer, idleFired, closeSeen, budget>>
    /\ UNCHANGED wheelVars
    /\ UNCHANGED restVars

\* TcpServer::stop 4): the wakeup of queueInLoop
StopShutdownWake(s) ==
    /\ spc[s] = "shutdown_wake"
    /\ wakeup_fd' = wakeup(wakeup_fd)
    /\ spc' = [spc EXCEPT ![s] = "pool_stop"]
    /\ UNCHANGED <<started, starts, pool_started, stop_acts, to_close>>
    /\ UNCHANGED <<pending, connections, stopVars, lpc, ran, enq, ppc>>
    /\ UNCHANGED <<conn, sock, on_connected, on_closed, conn_mutex, idle_map,
                   idle_slot, functors, drained, wpc, acc, accfd, apc, amsg,
                   nops, nuser, sendLog, peer, idleFired, closeSeen, budget>>
    /\ UNCHANGED wheelVars
    /\ UNCHANGED restVars

\* TcpServer::stop 5): EventLoopThreadPool::stop, the compare-and-swap on
\* the pool's started_
PoolStop(s) ==
    /\ spc[s] = "pool_stop"
    /\ IF stop_cas(pool_started)
       THEN /\ pool_started' = FALSE
            /\ stop_acts' = [stop_acts EXCEPT !["pool"] = @ + 1]
            /\ spc' = [spc EXCEPT ![s] = "loop_stop"]
       ELSE /\ UNCHANGED <<pool_started, stop_acts>>
            /\ spc' = [spc EXCEPT ![s] = "returned"]
    /\ UNCHANGED <<started, starts, to_close>>
    /\ UNCHANGED <<pending, connections, stopVars, loopVars>>
    /\ UNCHANGED <<conn, sock, on_connected, on_closed, conn_mutex, idle_map,
                   idle_slot, functors, drained, wpc, acc, accfd, apc, amsg,
                   nops, nuser, sendLog, peer, idleFired, closeSeen, budget>>
    /\ UNCHANGED wheelVars
    /\ UNCHANGED restVars

\* EventLoop::stop: running_.store(false)
LoopStop(s) ==
    /\ spc[s] = "loop_stop"
    /\ running' = FALSE
    /\ before_stop' = [called |-> TRUE, tasks |-> Pushed]
    /\ spc' = [spc EXCEPT ![s] = "loop_wake"]
    /\ UNCHANGED <<started, starts, pool_started, stop_acts, to_close>>
    /\ UNCHANGED <<pending, connections, registered, destroyed, loopVars>>
    /\ UNCHANGED <<conn, sock, on_connected, on_closed, conn_mutex, idle_map,
                   idle_slot, functors, drained, wpc, acc, accfd, apc, amsg,
                   nops, nuser, sendLog, peer, idleFired, closeSeen, budget>>
    /\ UNCHANGED wheelVars
    /\ UNCHANGED restVars

\* EventLoop::stop: wakeup()
LoopStopWake(s) ==
    /\ spc[s] = "loop_wake"
    /\ wakeup_fd' = wakeup(wakeup_fd)
    /\ spc' = [spc EXCEPT ![s] = "clear"]
    /\ UNCHANGED <<started, starts, pool_started, stop_acts, to_close>>
    /\ UNCHANGED <<pending, connections, stopVars, lpc, ran, enq, ppc>>
    /\ UNCHANGED <<conn, sock, on_connected, on_closed, conn_mutex, idle_map,
                   idle_slot, functors, drained, wpc, acc, accfd, apc, amsg,
                   nops, nuser, sendLog, peer, idleFired, closeSeen, budget>>
    /\ UNCHANGED wheelVars
    /\ UNCHANGED restVars

\* EventLoopThreadPool::stop 2): the threads are moved out and threads_ is
\* cleared, which destroys every EventLoop, before any thread is joined
PoolClear(s) ==
    /\ spc[s] = "clear"
    /\ destroyed' = TRUE
    /\ spc' = [spc EXCEPT ![s] = "join"]
    /\ UNCHANGED <<started, starts, pool_started, stop_acts, to_close>>
    /\ UNCHANGED <<pending, connections, running, registered, before_stop,
                   loopVars>>
    /\ UNCHANGED <<conn, sock, on_connected, on_closed, conn_mutex, idle_map,
                   idle_slot, functors, drained, wpc, acc, accfd, apc, amsg,
                   nops, nuser, sendLog, peer, idleFired, closeSeen, budget>>
    /\ UNCHANGED wheelVars
    /\ UNCHANGED restVars

\* EventLoopThreadPool::stop 2): t.join() returns when the thread has left
\* run_in_thread
PoolJoin(s) ==
    /\ spc[s] = "join"
    /\ lpc \in {"exit", "skipped"}
    /\ spc' = [spc EXCEPT ![s] = "returned"]
    /\ UNCHANGED <<started, starts, pool_started, stop_acts, to_close>>
    /\ UNCHANGED <<pending, connections, stopVars, loopVars>>
    /\ UNCHANGED <<conn, sock, on_connected, on_closed, conn_mutex, idle_map,
                   idle_slot, functors, drained, wpc, acc, accfd, apc, amsg,
                   nops, nuser, sendLog, peer, idleFired, closeSeen, budget>>
    /\ UNCHANGED wheelVars
    /\ UNCHANGED restVars

\* the steps of TcpServer::stop after its compare-and-swap
StopStep(s) ==
    \/ StopIdleManager(s)
    \/ StopAcceptor(s)
    \/ StopSnapshot(s)
    \/ StopShutdown(s)
    \/ StopShutdownWake(s)
    \/ PoolStop(s)
    \/ LoopStop(s)
    \/ LoopStopWake(s)
    \/ PoolClear(s)
    \/ PoolJoin(s)

\* a server that start() has started, with its worker thread spawned and a
\* connection accepted, or a server that was never started
StopInit ==
    /\ WheelIdle
    /\ RestIdle
    /\ LoopConstructed
    /\ ConnAccepted
    /\ spc = [s \in Stoppers |-> "idle"]
    /\ stop_acts = [c \in Components |-> 0]
    /\ to_close = [s \in Stoppers |-> {}]
    /\ starts \in {0, 1}
    /\ started = (starts = 1)
    /\ pool_started = (starts = 1)
    /\ budget = [ops |-> 0, user |-> 0,
                 tasks |-> IF starts = 1 THEN MaxStopTasks ELSE 0]
    /\ connections = IF starts = 1 THEN {ConnFd} ELSE {}
    /\ pending = IF starts = 1
                 THEN <<LoopTask("ctor", 1), LoopTask("acceptor", 1)>>
                 ELSE <<>>
    /\ wakeup_fd = Len(pending)

\* a server that was never started has no worker thread
NoThread == starts = 0

NextStop ==
    \/ ~NoThread /\ RunInThread
    \/ LoopEnter
    \/ LoopSwap
    \/ LoopRun
    \/ LoopPoll
    \/ LoopCheck
    \/ LoopUseAfterFree
    \/ LoopEnqueue("p1")
    \/ LoopWakeup("p1")
    \/ \E s \in Stoppers : StopBegin(s)
    \/ \E s \in Stoppers : StopStep(s)

\* the owner thread runs, the poll returns at the latest on its timeout, and
\* a thread inside stop() or queueInLoop goes on
SpecStop ==
    /\ StopInit
    /\ [][NextStop]_vars
    /\ WF_vars(~NoThread /\ OwnerStep)
    /\ WF_vars(LoopPoll)
    /\ WF_vars(LoopWakeup("p1"))
    /\ \A s \in Stoppers : WF_vars(StopStep(s))

\* ------------------------------------------------------------------------
\* EventLoopThreadPool: construction, start and get_next_loop (SpecPool)
\* ------------------------------------------------------------------------
MaxThreads == 3
MaxHw == 2
MaxCalls == 5

\* TcpServer::get_next_loop returned base_loop_
BaseLoop == -1

\* TcpServer::TcpServer: io_thread_count_ = std::max(0, io_thread_count)
server_thread_count(arg) == Max(0, arg)

\* EventLoopThreadPool::EventLoopThreadPool: the given count when it is
\* positive, else hardware_concurrency(); a negative count becomes 1
pool_thread_count(count, h) ==
    LET v == IF count > 0 THEN count ELSE h
    IN  IF v < 0 THEN 1 ELSE v

\* get_next_loop that always returns the first loop
round_robin_first(k, n) == 0

\* get_next_loop: next_index_.fetch_add(1) % threads_.size(); next_index_ is
\* a 64-bit counter, which the calls of a run do not wrap
round_robin(k, n) == k % n

\* the threads start() creates: none when thread_count_ <= 0
started_threads(count) == IF count <= 0 THEN 0 ELSE count

\* EventLoopThreadPool::start, called by TcpServer::start
PoolStart ==
    /\ ~pool_started
    /\ pool_started' = TRUE
    /\ nthreads' = started_threads(thread_count)
    /\ UNCHANGED <<io_thread_count, hw, thread_count, next_index, gpc, got>>
    /\ UNCHANGED <<started, starts, spc, stop_acts, to_close>>
    /\ UNCHANGED <<connVars, wheelVars, loopVars, stopVars, chanVars, memVars, moreVars>>

\* TcpServer::get_next_loop: thread_count() == 0 gives the base loop
GetCount(g) ==
    /\ pool_started
    /\ gpc[g] = "idle"
    /\ Len(got) + Cardinality({h \in Getters : gpc[h] = "next"}) < MaxCalls
    /\ IF nthreads = 0
       THEN got' = Append(got, BaseLoop) /\ gpc' = gpc
       ELSE got' = got /\ gpc' = [gpc EXCEPT ![g] = "next"]
    /\ UNCHANGED <<io_thread_count, hw, thread_count, nthreads, next_index>>
    /\ UNCHANGED <<connVars, wheelVars, loopVars, stopVars, serverVars,
                   chanVars, memVars, moreVars>>

\* EventLoopThreadPool::get_next_loop, under the pool's mutex_
GetNext(g) ==
    /\ gpc[g] = "next"
    /\ got' = Append(got, IF nthreads = 0 THEN BaseLoop
                          ELSE round_robin(next_index, nthreads))
    /\ next_index' = IF nthreads = 0 THEN next_index ELSE next_index + 1
    /\ gpc' = [gpc EXCEPT ![g] = "idle"]
    /\ UNCHANGED <<io_thread_count, hw, thread_count, nthreads>>
    /\ UNCHANGED <<connVars, wheelVars, loopVars, stopVars, serverVars,
                   chanVars, memVars, moreVars>>

\* a server constructed with any io_thread_count on a machine with any
\* hardware_concurrency()
PoolInit ==
    /\ ConnStart
    /\ WheelIdle
    /\ LoopIdle
    /\ StopIdle
    /\ ServerIdle
    /\ ChanIdle
    /\ MemIdle
    /\ MoreIdle
    /\ io_thread_count \in -1..MaxThreads
    /\ hw \in 0..MaxHw
    /\ thread_count = pool_thread_count(server_thread_count(io_thread_count), hw)
    /\ nthreads = 0
    /\ next_index = 0
    /\ gpc = [g \in Getters |-> "idle"]
    /\ got = <<>>

NextPool ==
    \/ PoolStart
    \/ \E g \in Getters : GetCount(g)
    \/ \E g \in Getters : GetNext(g)

SpecPool == PoolInit /\ [][NextPool]_vars

\* ------------------------------------------------------------------------
\* Channel: the mask mutations and EventLoop::update_channel (SpecChannel)
\* ------------------------------------------------------------------------
MaxChanOps == 2

ChanOps == {"enable_read", "enable_write", "disable_write", "disable_all"}

\* events_ after enable_read, enable_write, disable_write, disable_all
mask_after(op, ev) ==
    CASE op = "enable_read"   -> ev \cup {"IN", "RDHUP"}
      [] op = "enable_write"  -> ev \cup {"OUT"}
      [] op = "disable_write" -> ev \ {"OUT"}
      [] op = "disable_all"   -> {}

\* Channel::update off the loop thread that queues nothing
update_dropped(q) == q

\* Channel::update off the loop thread: runInLoop queues the update task
update_queued(q) == q + 1

\* a mutation reads events_ (the |= and &= are plain read-modify-writes)
ChanRead(t, op) ==
    /\ cpc[t] = "idle"
    /\ cops[t] < MaxChanOps
    /\ cops' = [cops EXCEPT ![t] = @ + 1]
    /\ clocal' = [clocal EXCEPT ![t] = mask_after(op, ch_events)]
    /\ cpc' = [cpc EXCEPT ![t] = "write"]
    /\ UNCHANGED <<ch_events, ep_mask, in_channels, chq>>
    /\ UNCHANGED <<connVars, wheelVars, loopVars, stopVars, serverVars,
                   rrVars, memVars, moreVars>>

\* the mutation writes events_ and calls update(): update_channel at once on
\* the loop thread, a queued task from any other thread
ChanWrite(t) ==
    /\ cpc[t] = "write"
    /\ ch_events' = clocal[t]
    /\ IF t = Owner
       THEN chq' = chq /\ cpc' = [cpc EXCEPT ![t] = "update"]
       ELSE chq' = update_queued(chq) /\ cpc' = [cpc EXCEPT ![t] = "idle"]
    /\ UNCHANGED <<ep_mask, in_channels, clocal, cops>>
    /\ UNCHANGED <<connVars, wheelVars, loopVars, stopVars, serverVars,
                   rrVars, memVars, moreVars>>

\* do_pending_functors runs a queued update task
ChanRunTask ==
    /\ cpc[Owner] = "idle"
    /\ chq > 0
    /\ chq' = chq - 1
    /\ cpc' = [cpc EXCEPT ![Owner] = "update"]
    /\ UNCHANGED <<ch_events, ep_mask, in_channels, clocal, cops>>
    /\ UNCHANGED <<connVars, wheelVars, loopVars, stopVars, serverVars,
                   rrVars, memVars, moreVars>>

\* update_channel: evs = ch->events(); an empty mask deletes the descriptor
\* from the notifier and from channels_
UpdateChannel ==
    /\ cpc[Owner] = "update"
    /\ IF ch_events = {}
       THEN /\ ep_mask' = [reg |-> FALSE, mask |-> {}]
            /\ in_channels' = FALSE
            /\ cpc' = [cpc EXCEPT ![Owner] = "idle"]
       ELSE /\ UNCHANGED <<ep_mask, in_channels>>
            /\ cpc' = [cpc EXCEPT ![Owner] = "ctl"]
    /\ UNCHANGED <<ch_events, chq, clocal, cops>>
    /\ UNCHANGED <<connVars, wheelVars, loopVars, stopVars, serverVars,
                   rrVars, memVars, moreVars>>

\* update_channel: Epoll::add for a descriptor that is not in channels_,
\* Epoll::mod for one that is; both read ch->events() again
EpollCtl ==
    /\ cpc[Owner] = "ctl"
    /\ IF ~in_channels
       THEN /\ ep_mask' = [reg |-> TRUE, mask |-> ch_events]
            /\ in_channels' = TRUE
       ELSE /\ ep_mask' = [ep_mask EXCEPT !.mask = ch_events]
            /\ in_channels' = in_channels
    /\ cpc' = [cpc EXCEPT ![Owner] = "idle"]
    /\ UNCHANGED <<ch_events, chq, clocal, cops>>
    /\ UNCHANGED <<connVars, wheelVars, loopVars, stopVars, serverVars,
                   rrVars, memVars, moreVars>>

ChanInit ==
    /\ ConnStart
    /\ WheelIdle
    /\ LoopIdle
    /\ StopIdle
    /\ ServerIdle
    /\ PoolIdle
    /\ MemIdle
    /\ ChanIdle
    /\ MoreIdle

NextChannel ==
    \/ \E t \in ChanThreads, op \in ChanOps : ChanRead(t, op)
    \/ \E t \in ChanThreads : ChanWrite(t)
    \/ ChanRunTask
    \/ UpdateChannel
    \/ EpollCtl

SpecChannel == ChanInit /\ [][NextChannel]_vars

\* ------------------------------------------------------------------------
\* MemoryPool: alloc_chunk and retrieve called by several threads.  Sizes
\* are in units of the smallest chunk; every access to the pool's fields is
\* made under mutex_, so each locked block is one step.

\* max_capacity_bytes_, scaled
MaxCapacity == 6

\* the largest request made, one more than the largest chunk size
MaxRequest == 4

\* successful allocations made in one behaviour
MaxAllocs == 4

Requests == 0..MaxRequest

\* initialize_pool: chunks of every size are on the free lists before the
\* first call, and none of them counts as used
Preallocated == [z \in ChunkSizes |-> <<NewChunkOf(z)>>]

\* what a holder may have done to a chunk of capacity z by the time it
\* returns it: written bytes, popped some of them
UsedChunks(z) ==
    {c \in [capacity : {z}, length : 0..z, head : 0..z] :
        c.head + c.length <= z}

\* the first of the sizes, in increasing order, that holds the request;
\* 0 when none does
suitable_size_in(sizes, n) ==
    IF \E z \in sizes : n <= z
    THEN CHOOSE z \in sizes :
             /\ n <= z
             /\ \A y \in sizes : n <= y => z <= y
    ELSE 0

find_suitable_size(n) == suitable_size_in(ChunkSizes, n)

is_supported_size(z) == z \in ChunkSizes

exceeds_capacity(usage, z) == usage + z > MaxCapacity

\* a chunk put back with the fields its holder left in it
chunk_kept(c) == c

\* Chunk::clear
chunk_clear(c) == [c EXCEPT !.length = 0, !.head = 0]

\* the usage a retrieve leaves unchanged
usage_kept(usage, z) == usage

\* retrieve: the usage goes down by the chunk's size, not below 0
usage_after_retrieve(usage, z) == IF usage >= z THEN usage - z ELSE 0

OtherVarsMem ==
    UNCHANGED <<connVars, wheelVars, loopVars, stopVars, serverVars,
                rrVars, chanVars, moreVars>>

\* alloc_chunk up to the end of its first locked block: a request of 0 or
\* of an unsupported size returns nullptr, a free chunk is handed out on the
\* fast path, and otherwise the first capacity check decides between
\* throwing and going on to create a chunk outside the lock
AllocChunk(t, n) ==
    /\ mpc[t] = "idle"
    /\ stats.total_allocations < MaxAllocs
    /\ mreq' = [mreq EXCEPT ![t] = n]
    /\ LET chunk_size == IF n = 0 THEN 0 ELSE find_suitable_size(n) IN
       /\ msize' = [msize EXCEPT ![t] = chunk_size]
       /\ IF chunk_size = 0
          THEN /\ mret' = [mret EXCEPT ![t] = Returned("nullptr", NoChunk)]
               /\ UNCHANGED <<free_list, current_usage_bytes, held, mpc, stats>>
          ELSE IF free_list[chunk_size] # <<>>
          THEN /\ free_list' = [free_list EXCEPT ![chunk_size] = Tail(@)]
               /\ current_usage_bytes' = current_usage_bytes + chunk_size
               /\ held' = [held EXCEPT ![t][chunk_size] = @ + 1]
               /\ mret' = [mret EXCEPT
                             ![t] = Returned("chunk", Head(free_list[chunk_size]))]
               /\ stats' = [stats EXCEPT !.total_allocations = @ + 1]
               /\ mpc' = mpc
          ELSE IF exceeds_capacity(current_usage_bytes, chunk_size)
          THEN /\ mret' = [mret EXCEPT ![t] = Returned("throw", NoChunk)]
               /\ UNCHANGED <<free_list, current_usage_bytes, held, mpc, stats>>
          ELSE /\ mpc' = [mpc EXCEPT ![t] = "create"]
               /\ mret' = [mret EXCEPT ![t] = Returned("pending", NoChunk)]
               /\ UNCHANGED <<free_list, current_usage_bytes, held, stats>>
    /\ OtherVarsMem

\* new Chunk(chunk_size) outside the lock; bad_alloc ends the call
NewChunk(t) ==
    /\ mpc[t] = "create"
    /\ \/ /\ mpc' = [mpc EXCEPT ![t] = "recheck"]
          /\ mret' = mret
       \/ /\ mpc' = [mpc EXCEPT ![t] = "idle"]
          /\ mret' = [mret EXCEPT ![t] = Returned("throw", NoChunk)]
    /\ UNCHANGED <<free_list, current_usage_bytes, held, msize, mreq, stats>>
    /\ OtherVarsMem

\* the second capacity check, under the lock
Recheck(t) ==
    /\ mpc[t] = "recheck"
    /\ IF exceeds_capacity(current_usage_bytes, msize[t])
       THEN /\ mret' = [mret EXCEPT ![t] = Returned("throw", NoChunk)]
            /\ UNCHANGED <<current_usage_bytes, held, stats>>
       ELSE /\ current_usage_bytes' = current_usage_bytes + msize[t]
            /\ held' = [held EXCEPT ![t][msize[t]] = @ + 1]
            /\ mret' = [mret EXCEPT
                          ![t] = Returned("chunk", NewChunkOf(msize[t]))]
            /\ stats' = [stats EXCEPT !.total_allocations = @ + 1]
    /\ mpc' = [mpc EXCEPT ![t] = "idle"]
    /\ UNCHANGED <<free_list, msize, mreq>>
    /\ OtherVarsMem

\* retrieve(chunk) of a chunk the thread holds, in whatever state the
\* holder left it
Retrieve(t, chunk) ==
    /\ mpc[t] = "idle"
    /\ chunk.capacity # 0
    /\ is_supported_size(chunk.capacity)
    /\ held[t][chunk.capacity] > 0
    /\ held' = [held EXCEPT ![t][chunk.capacity] = @ - 1]
    /\ free_list' = [free_list EXCEPT
                        ![chunk.capacity] = <<chunk_clear(chunk)>> \o @]
    /\ current_usage_bytes' =
           usage_after_retrieve(current_usage_bytes, chunk.capacity)
    /\ stats' = [stats EXCEPT !.total_deallocations = @ + 1]
    /\ UNCHANGED <<mpc, msize, mreq, mret>>
    /\ OtherVarsMem

MemInit ==
    /\ ConnStart
    /\ WheelIdle
    /\ LoopIdle
    /\ StopIdle
    /\ ServerIdle
    /\ PoolIdle
    /\ ChanIdle
    /\ MoreIdle
    /\ free_list = Preallocated
    /\ current_usage_bytes = 0
    /\ held = [t \in MemThreads |-> [z \in ChunkSizes |-> 0]]
    /\ mpc = [t \in MemThreads |-> "idle"]
    /\ msize = [t \in MemThreads |-> 0]
    /\ mreq = [t \in MemThreads |-> 0]
    /\ mret = [t \in MemThreads |-> Returned("nullptr", NoChunk)]
    /\ stats = [total_allocations |-> 0, total_deallocations |-> 0]

NextMem ==
    \/ \E t \in MemThreads, n \in Requests : AllocChunk(t, n)
    \/ \E t \in MemThreads : NewChunk(t)
    \/ \E t \in MemThreads : Recheck(t)
    \/ \E t \in MemThreads, z \in ChunkSizes :
           \E chunk \in UsedChunks(z) : Retrieve(t, chunk)

SpecMem == MemInit /\ [][NextMem]_vars

\* ------------------------------------------------------------------------
\* InputBuffer and OutputBuffer: one buffer of each kind, used by its
\* connection's loop thread only.  Sizes are in units of half the default
\* buffer size.  The pool is seen from the buffer: alloc_chunk gives an
\* empty chunk of the smallest class that holds the request, or nothing
\* (nullptr for a request above the largest class, a throw when the pool
\* is exhausted).

\* MEM_SIZES, scaled: three classes, the smallest is DEFAULT_BUFFER_SIZE
BufSizes == {2, 4, 8}

DefaultBufferSize == 2

\* MAX_ALLOWED_SIZE of ensure_space_available and ensure_capacity, and the
\* limit on len in write_to_buf: the size of one of the classes
MaxAllowedSize == 4

\* MAX_BUFFER_SIZE of OutputBuffer::ensure_capacity
MaxBufferSize == 4

\* the most one read(2) is asked for
MaxReadOnce == 32

\* the longest data given to write_to_buf, and the longest pop
MaxWrite == 5

Bytes == {"x", "y"}

RECURSIVE SeqsUpTo(_)
SeqsUpTo(n) ==
    IF n = 0 THEN {<<>>}
    ELSE LET shorter == SeqsUpTo(n - 1)
         IN  shorter \cup {Append(d, b) : d \in {x \in shorter : Len(x) = n - 1},
                                          b \in Bytes}

WriteData == SeqsUpTo(MaxWrite)

Fds == {-1, ConnFd}

\* what alloc_chunk(n) can give a buffer
BufAlloc(n) ==
    {NoChunk} \cup
    (IF n > 0 /\ suitable_size_in(BufSizes, n) # 0
     THEN {NewChunkOf(suitable_size_in(BufSizes, n))}
     ELSE {})

\* Chunk::adjust
chunk_adjust(c) == [c EXCEPT !.head = 0]

\* Chunk::pop
chunk_pop(c, len) ==
    IF len >= c.length THEN [c EXCEPT !.length = 0, !.head = 0]
    ELSE [c EXCEPT !.head = @ + len, !.length = @ - len]

\* Chunk::copy: dst takes the valid bytes of src, at offset 0
chunk_copy(dst, src) ==
    IF src.length = 0 THEN [dst EXCEPT !.length = 0]
    ELSE IF src.length > dst.capacity
    THEN [capacity |-> Max(2 * dst.capacity, src.length),
          length |-> src.length, head |-> 0]
    ELSE [dst EXCEPT !.length = src.length, !.head = 0]

\* the size expand_buffer asks the pool for
expand_size(buf, needed_size) == buf.length + needed_size

\* InputBuffer::expand_buffer: the outcomes, one per outcome of alloc_chunk
expand_buffer(buf, needed_size) ==
    {IF c = NoChunk THEN [ok |-> FALSE, buf |-> buf]
     ELSE [ok |-> TRUE, buf |-> chunk_copy(c, buf)] :
        c \in BufAlloc(expand_size(buf, needed_size))}

\* InputBuffer::ensure_space_available
ensure_space_available(buf, additional_size) ==
    IF additional_size <= 0 \/ additional_size > MaxAllowedSize
    THEN {[ok |-> FALSE, buf |-> buf]}
    ELSE IF buf = NoChunk
    THEN {[ok |-> c # NoChunk, buf |-> c] :
             c \in BufAlloc(Max(additional_size, DefaultBufferSize))}
    ELSE LET adjusted == IF buf.head # 0 THEN chunk_adjust(buf) ELSE buf
             available == adjusted.capacity - adjusted.length
         IN  IF available >= additional_size
             THEN {[ok |-> TRUE, buf |-> adjusted]}
             ELSE expand_buffer(adjusted, additional_size - available)

OtherVarsIn ==
    UNCHANGED <<connVars, wheelVars, loopVars, stopVars, serverVars,
                rrVars, chanVars, memVars, ob, oret, opc, exhaustVars,
                cbVars, tpVars, dispVars, idleVars, lifeVars>>

\* read_from_fd up to its read(2)
InEnsure(fd) ==
    /\ ipc = "idle"
    /\ IF fd < 0
       THEN /\ iret' = -1
            /\ UNCHANGED <<ib, ipc>>
       ELSE \E r \in ensure_space_available(ib, DefaultBufferSize) :
                /\ ib' = r.buf
                /\ IF r.ok /\ r.buf # NoChunk
                        /\ r.buf.capacity - r.buf.length # 0
                   THEN /\ ipc' = "read"
                        /\ iret' = iret
                   ELSE /\ ipc' = "idle"
                        /\ iret' = -1
    /\ OtherVarsIn

\* the read(2) and what follows it; k is what read returned once it was
\* not interrupted, again tells EAGAIN from the other errors
InRead(k, again) ==
    /\ ipc = "read"
    /\ k <= Min(ib.capacity - ib.length, MaxReadOnce)
    /\ ib' = IF k > 0 THEN [ib EXCEPT !.length = @ + k] ELSE ib
    /\ iret' = IF k >= 0 THEN k ELSE IF again THEN 0 ELSE -1
    /\ ipc' = "idle"
    /\ OtherVarsIn

\* BufferBase::pop on the input buffer
InPop(len) ==
    /\ ipc = "idle"
    /\ IF ib = NoChunk \/ len <= 0 \/ len > ib.length
       THEN ib' = ib
       ELSE ib' = IF chunk_pop(ib, len).length = 0 THEN NoChunk
                  ELSE chunk_pop(ib, len)
    /\ UNCHANGED <<ipc, iret>>
    /\ OtherVarsIn

InInit ==
    /\ ConnStart
    /\ WheelIdle
    /\ LoopIdle
    /\ ExtIdle

NextIn ==
    \/ \E fd \in Fds : InEnsure(fd)
    \/ \E k \in -1..Max(MaxReadOnce, MaxWrite), again \in BOOLEAN : InRead(k, again)
    \/ \E len \in 0..MaxWrite : InPop(len)

SpecIn == InInit /\ [][NextIn]_vars

\* new_size > MAX_BUFFER_SIZE, and the test left out
over_max_never(new_size) == FALSE

over_max_buffer(new_size) == new_size > MaxBufferSize

\* OutputBuffer::ensure_capacity: the outcomes, one per outcome of
\* alloc_chunk
ob_ensure_capacity(buf, additional_size) ==
    IF additional_size <= 0 \/ additional_size > MaxAllowedSize
    THEN {[ok |-> FALSE, buf |-> buf]}
    ELSE IF buf = NoBuf
    THEN {[ok |-> c # NoChunk,
           buf |-> [capacity |-> c.capacity, head |-> 0, data |-> <<>>]] :
             c \in BufAlloc(Max(additional_size, DefaultBufferSize))}
    ELSE LET adjusted == [buf EXCEPT !.head = 0]
             available == adjusted.capacity - Len(adjusted.data)
             new_size == Len(adjusted.data) + additional_size
         IN  IF available >= additional_size
             THEN {[ok |-> TRUE, buf |-> adjusted]}
             ELSE IF over_max_buffer(new_size)
             THEN {[ok |-> FALSE, buf |-> adjusted]}
             ELSE {IF c = NoChunk THEN [ok |-> FALSE, buf |-> adjusted]
                   ELSE [ok |-> TRUE,
                         buf |-> [capacity |-> c.capacity, head |-> 0,
                                  data |-> adjusted.data]] :
                      c \in BufAlloc(new_size)}

OtherVarsOut ==
    UNCHANGED <<connVars, wheelVars, loopVars, stopVars, serverVars,
                rrVars, chanVars, memVars, ib, ipc, iret, exhaustVars,
                cbVars, tpVars, dispVars, idleVars, lifeVars>>

\* OutputBuffer::write_to_buf(data, len) with a data pointer that is not
\* null
OutWriteToBuf(data) ==
    /\ opc = "idle"
    /\ IF Len(data) <= 0
       THEN /\ ob' = ob
            /\ oret' = [op |-> "write_to_buf", rc |-> 0]
       ELSE IF Len(data) > MaxAllowedSize
       THEN /\ ob' = ob
            /\ oret' = [op |-> "write_to_buf", rc |-> -1]
       ELSE \E r \in ob_ensure_capacity(ob, Len(data)) :
                IF ~r.ok \/ r.buf = NoBuf
                THEN /\ ob' = r.buf
                     /\ oret' = [op |-> "write_to_buf", rc |-> -1]
                ELSE /\ ob' = [r.buf EXCEPT !.data = @ \o data]
                     /\ oret' = [op |-> "write_to_buf", rc |-> 0]
    /\ opc' = opc
    /\ OtherVarsOut

\* OutputBuffer::write_to_fd.  k is what write(2) returned once it was not
\* interrupted, again tells EAGAIN from the other errors.  With a head that
\* is not 0 the assert ends the program where asserts are compiled in, and
\* the call goes on where they are not.
OutWriteToFd(fd, k, again) ==
    /\ opc = "idle"
    /\ IF fd < 0
       THEN /\ oret' = [op |-> "write_to_fd", rc |-> -1]
            /\ UNCHANGED <<ob, opc>>
       ELSE IF ob = NoBuf \/ Len(ob.data) = 0
       THEN /\ oret' = [op |-> "write_to_fd", rc |-> 0]
            /\ UNCHANGED <<ob, opc>>
       ELSE \/ /\ ob.head # 0
               /\ opc' = "aborted"
               /\ UNCHANGED <<ob, oret>>
            \/ /\ k <= Len(ob.data)
               /\ opc' = opc
               /\ IF k > 0
                  THEN /\ ob' = IF k >= Len(ob.data) THEN NoBuf
                                ELSE [ob EXCEPT
                                         !.head = @ + k,
                                         !.data = SubSeq(@, k + 1, Len(@))]
                       /\ oret' = [op |-> "write_to_fd", rc |-> k]
                  ELSE /\ ob' = ob
                       /\ oret' = [op |-> "write_to_fd",
                                   rc |-> IF k = 0 \/ again THEN 0 ELSE -1]
    /\ OtherVarsOut

OutInit ==
    /\ ConnStart
    /\ WheelIdle
    /\ LoopIdle
    /\ ExtIdle

NextOut ==
    \/ \E data \in WriteData : OutWriteToBuf(data)
    \/ \E fd \in Fds, k \in -1..MaxWrite, again \in BOOLEAN :
           OutWriteToFd(fd, k, again)

SpecOut == OutInit /\ [][NextOut]_vars

\* ------------------------------------------------------------------------
\* Acceptor::do_accept when descriptors run out.  The process has a limit
\* on its open descriptors; nfree is what is left of it.  The acceptor
\* thread runs do_accept, the other threads of the process open and close
\* descriptors of their own and close accepted connections, and peers
\* connect.

\* descriptors the process may have open besides the listener
MaxFds == 3

\* connections that can wait in the listener's queue
MaxBacklog == 2

OtherVarsExhaust ==
    UNCHANGED <<connVars, wheelVars, loopVars, stopVars, serverVars,
                rrVars, chanVars, memVars, bufVars, cbVars, tpVars,
                dispVars, idleVars, lifeVars>>

\* the listener's readable edge is delivered: Acceptor's callback calls
\* do_accept
AcceptReady ==
    /\ dpc = "idle"
    /\ backlog > 0
    /\ dpc' = "accept4"
    /\ UNCHANGED <<idle_fd, nfree, backlog, nothers, naccepted, rescue>>
    /\ OtherVarsExhaust

\* accept4 and the branch taken on its result.  other is an error that is
\* none of EINTR, EAGAIN, EMFILE, ENFILE.  With no free descriptor and an
\* empty queue the result depends on the kernel: fd_first is the kernel
\* that takes the new descriptor before it looks at the queue (Linux) and
\* fails with EMFILE, the other kind fails with EAGAIN.
Accept4(other, fd_first) ==
    /\ dpc = "accept4"
    /\ IF other
       THEN /\ dpc' = "idle"
            /\ rescue' = [rescue EXCEPT !.last = "error"]
            /\ UNCHANGED <<nfree, backlog, naccepted>>
       ELSE IF nfree = 0 /\ (backlog > 0 \/ fd_first)
       THEN /\ dpc' = "close_idle"
            /\ rescue' = [last |-> "emfile", removed |-> FALSE]
            /\ UNCHANGED <<nfree, backlog, naccepted>>
       ELSE IF backlog = 0
       THEN /\ dpc' = "idle"
            /\ rescue' = [rescue EXCEPT !.last = "eagain"]
            /\ UNCHANGED <<nfree, backlog, naccepted>>
       ELSE /\ dpc' = "accept4"
            /\ nfree' = nfree - 1
            /\ backlog' = backlog - 1
            /\ naccepted' = naccepted + 1
            /\ rescue' = [rescue EXCEPT !.last = "accepted"]
    /\ UNCHANGED <<idle_fd, nothers>>
    /\ OtherVarsExhaust

\* ::close(idle_fd_)
RescueClose ==
    /\ dpc = "close_idle"
    /\ nfree' = IF idle_fd >= 0 THEN nfree + 1 ELSE nfree
    /\ dpc' = "accept_tmp"
    /\ UNCHANGED <<idle_fd, backlog, nothers, naccepted, rescue>>
    /\ OtherVarsExhaust

\* tmp = ::accept(listen_fd_), and ::close(tmp) when it succeeded
RescueAccept ==
    /\ dpc = "accept_tmp"
    /\ IF nfree > 0 /\ backlog > 0
       THEN /\ backlog' = backlog - 1
            /\ rescue' = [rescue EXCEPT !.removed = TRUE]
       ELSE UNCHANGED <<backlog, rescue>>
    /\ dpc' = "open_idle"
    /\ UNCHANGED <<idle_fd, nfree, nothers, naccepted>>
    /\ OtherVarsExhaust

\* idle_fd_ = ::open("/dev/null"), then continue
RescueOpen ==
    /\ dpc = "open_idle"
    /\ IF nfree > 0
       THEN /\ idle_fd' = 1
            /\ nfree' = nfree - 1
       ELSE /\ idle_fd' = -1
            /\ nfree' = nfree
    /\ rescue' = [rescue EXCEPT !.last = "rescue"]
    /\ dpc' = "accept4"
    /\ UNCHANGED <<backlog, nothers, naccepted>>
    /\ OtherVarsExhaust

\* another thread opens a descriptor of its own
OtherOpen ==
    /\ nfree > 0
    /\ nfree' = nfree - 1
    /\ nothers' = nothers + 1
    /\ UNCHANGED <<dpc, idle_fd, backlog, naccepted, rescue>>
    /\ OtherVarsExhaust

\* another thread closes one of its descriptors
OtherClose ==
    /\ nothers > 0
    /\ nothers' = nothers - 1
    /\ nfree' = nfree + 1
    /\ UNCHANGED <<dpc, idle_fd, backlog, naccepted, rescue>>
    /\ OtherVarsExhaust

\* a worker loop closes an accepted connection
AcceptedClose ==
    /\ naccepted > 0
    /\ naccepted' = naccepted - 1
    /\ nfree' = nfree + 1
    /\ UNCHANGED <<dpc, idle_fd, backlog, nothers, rescue>>
    /\ OtherVarsExhaust

\* a peer's connection completes and waits in the queue
PeerConnect ==
    /\ backlog < MaxBacklog
    /\ backlog' = backlog + 1
    /\ UNCHANGED <<dpc, idle_fd, nfree, nothers, naccepted, rescue>>
    /\ OtherVarsExhaust

\* the Acceptor is constructed and listening, idle_fd_ is open, and the
\* other threads hold some of the remaining descriptors
ExhaustInit ==
    /\ ConnStart
    /\ WheelIdle
    /\ LoopIdle
    /\ StopIdle
    /\ ServerIdle
    /\ PoolIdle
    /\ ChanIdle
    /\ MemIdle
    /\ BufIdle
    /\ CbIdle
    /\ TpIdle
    /\ DispIdle
    /\ IdleMgrIdle
    /\ LifeIdle
    /\ dpc = "idle"
    /\ idle_fd = 1
    /\ nothers \in 0..(MaxFds - 1)
    /\ nfree = MaxFds - 1 - nothers
    /\ backlog = 0
    /\ naccepted = 0
    /\ rescue = [last |-> "none", removed |-> FALSE]

NextExhaust ==
    \/ AcceptReady
    \/ \E other \in BOOLEAN, fd_first \in BOOLEAN : Accept4(other, fd_first)
    \/ RescueClose
    \/ RescueAccept
    \/ RescueOpen
    \/ OtherOpen
    \/ OtherClose
    \/ AcceptedClose
    \/ PeerConnect

SpecExhaust == ExhaustInit /\ [][NextExhaust]_vars

\* ------------------------------------------------------------------------
\* The user callbacks.  A connection calls the server's three wrappers
\* (ts_connected_cb, ts_message_cb, ts_close_cb), and each wrapper calls the
\* user callbacks that are set.  A user callback returns or throws.

\* handle_read calls that deliver data in one behaviour
MaxReads == 2

UserCallbacks == {"on_connected", "on_raw_data", "on_message", "on_closed"}

\* a user callback that threw with no handler around the call: the
\* exception leaves the wrapper
escapes_uncaught(threw) == threw

\* try { user callback } catch (...) { log }: nothing leaves the wrapper
escapes(threw) == FALSE

\* the log after the wrapper has called the user callback cb, when it is set
Invoke(log, cb, threw) ==
    IF cb \in cbset THEN Append(log, [cb |-> cb, threw |-> threw]) ELSE log

\* an exception has left the call of cb
Unwinds(cb, threw) == cb \in cbset /\ escapes(threw)

OtherVarsCb ==
    UNCHANGED <<connVars, wheelVars, loopVars, stopVars, serverVars,
                rrVars, chanVars, memVars, bufVars, exhaustVars, tpVars,
                dispVars, idleVars, lifeVars>>

\* connect_established: the channel, the state, then connected_cb_, which
\* is ts_connected_cb
CbConnectEstablished(threw) ==
    /\ cbpc = "new"
    /\ cblog' = Invoke(cblog, "on_connected", threw)
    /\ cbpc' = IF Unwinds("on_connected", threw) THEN "unwound"
               ELSE "connected"
    /\ UNCHANGED <<cbset, cbfd, cbreads>>
    /\ OtherVarsCb

\* handle_read with n > 0: message_cb_, which is ts_message_cb: the
\* activity update, the data callback on the readable bytes, then the
\* message callback
CbHandleRead(threw_data, threw_msg) ==
    /\ cbpc = "connected"
    /\ cbreads < MaxReads
    /\ cbreads' = cbreads + 1
    /\ IF Unwinds("on_raw_data", threw_data)
       THEN /\ cblog' = Invoke(cblog, "on_raw_data", threw_data)
            /\ cbpc' = "unwound"
       ELSE /\ cblog' = Invoke(Invoke(cblog, "on_raw_data", threw_data),
                               "on_message", threw_msg)
            /\ cbpc' = IF Unwinds("on_message", threw_msg) THEN "unwound"
                       ELSE "connected"
    /\ UNCHANGED <<cbset, cbfd>>
    /\ OtherVarsCb

\* handle_close: the state, the channel, close_cb_, which is ts_close_cb
\* (the registry, the idle manager, the user's close callback), then
\* ::close(connfd_).  found: remove_tcp_conn finds the connection in the
\* registry, and then does not return (see remove_tcp_conn above).
CbHandleClose(found, threw) ==
    /\ cbpc = "connected"
    /\ IF remove_tcp_conn(IF found THEN {cbfd} ELSE {}, cbfd).pc = "deadlock"
       THEN /\ cbpc' = "deadlock"
            /\ UNCHANGED <<cblog, cbfd>>
       ELSE /\ cblog' = Invoke(cblog, "on_closed", threw)
            /\ IF Unwinds("on_closed", threw)
               THEN /\ cbpc' = "unwound"
                    /\ cbfd' = cbfd
               ELSE /\ cbpc' = "closed"
                    /\ cbfd' = -1
    /\ UNCHANGED <<cbset, cbreads>>
    /\ OtherVarsCb

\* the server is constructed and the user has set some of the callbacks
CbInit ==
    /\ ConnStart
    /\ WheelIdle
    /\ LoopIdle
    /\ StopIdle
    /\ ServerIdle
    /\ PoolIdle
    /\ ChanIdle
    /\ MemIdle
    /\ BufIdle
    /\ ExhaustIdle
    /\ TpIdle
    /\ DispIdle
    /\ IdleMgrIdle
    /\ LifeIdle
    /\ cbset \in SUBSET UserCallbacks
    /\ cbpc = "new"
    /\ cblog = <<>>
    /\ cbfd = ConnFd
    /\ cbreads = 0

NextCb ==
    \/ \E threw \in BOOLEAN : CbConnectEstablished(threw)
    \/ \E threw_data \in BOOLEAN, threw_msg \in BOOLEAN :
           CbHandleRead(threw_data, threw_msg)
    \/ \E found \in BOOLEAN, threw \in BOOLEAN : CbHandleClose(found, threw)

SpecCallbacks == CbInit /\ [][NextCb]_vars

\* ------------------------------------------------------------------------
\* ThreadPool: two workers inside thread_worker, a thread that posts tasks
\* and a thread that calls stop().  tp_tasks_ is touched under tp_mutex_
\* only; tp_run_ is an atomic that stop() writes, and post_task first
\* reads, without the mutex.

\* post_task calls made in one behaviour
MaxPosts == 2

OtherVarsTp ==
    UNCHANGED <<connVars, wheelVars, loopVars, stopVars, serverVars,
                rrVars, chanVars, memVars, bufVars, exhaustVars, cbVars,
                dispVars, idleVars, lifeVars>>

\* the workers blocked inside tp_task_cv_.wait
Waiting == {w \in TpWorkers : wst[w] = "waiting"}

\* notify_all
notify_all(st) == [w \in TpWorkers |-> IF st[w] = "waiting" THEN "lock" ELSE st[w]]

\* std::unique_lock lock(tp_mutex_), and the lock taken again after a wait
WorkerLock(w) ==
    /\ wst[w] = "lock"
    /\ tp_mutex = "free"
    /\ tp_mutex' = w
    /\ wst' = [wst EXCEPT ![w] = "pred"]
    /\ UNCHANGED <<tp_run, tp_tasks, wtask, executed, postpc, posted, stpc>>
    /\ OtherVarsTp

\* the predicate of the wait, evaluated with the mutex held, and what
\* follows when it is true: return when stopped with an empty queue, else
\* take the front task and release the mutex
WorkerPred(w) ==
    /\ wst[w] = "pred"
    /\ IF tp_run /\ tp_tasks = <<>>
       THEN /\ wst' = [wst EXCEPT ![w] = "block"]
            /\ UNCHANGED <<tp_mutex, tp_tasks, wtask>>
       ELSE IF tp_tasks = <<>>
       THEN /\ wst' = [wst EXCEPT ![w] = "exited"]
            /\ tp_mutex' = "free"
            /\ UNCHANGED <<tp_tasks, wtask>>
       ELSE /\ wst' = [wst EXCEPT ![w] = "task"]
            /\ wtask' = [wtask EXCEPT ![w] = Head(tp_tasks)]
            /\ tp_tasks' = Tail(tp_tasks)
            /\ tp_mutex' = "free"
    /\ UNCHANGED <<tp_run, executed, postpc, posted, stpc>>
    /\ OtherVarsTp

\* the predicate was false: the wait releases the mutex and blocks
WorkerBlock(w) ==
    /\ wst[w] = "block"
    /\ wst' = [wst EXCEPT ![w] = "waiting"]
    /\ tp_mutex' = "free"
    /\ UNCHANGED <<tp_run, tp_tasks, wtask, executed, postpc, posted, stpc>>
    /\ OtherVarsTp

\* a wait may return without a notification
WorkerSpuriousWake(w) ==
    /\ wst[w] = "waiting"
    /\ wst' = [wst EXCEPT ![w] = "lock"]
    /\ UNCHANGED <<tp_run, tp_tasks, tp_mutex, wtask, executed, postpc,
                   posted, stpc>>
    /\ OtherVarsTp

\* task()
WorkerRun(w) ==
    /\ wst[w] = "task"
    /\ executed' = Append(executed, wtask[w])
    /\ wst' = [wst EXCEPT ![w] = "lock"]
    /\ UNCHANGED <<tp_run, tp_tasks, tp_mutex, wtask, postpc, posted, stpc>>
    /\ OtherVarsTp

\* post_task: the first test of tp_run_
PostCheck ==
    /\ postpc = "idle"
    /\ posted.accepted + posted.rejected < MaxPosts
    /\ IF tp_run
       THEN /\ postpc' = "lock"
            /\ posted' = posted
       ELSE /\ postpc' = "idle"
            /\ posted' = [posted EXCEPT !.rejected = @ + 1]
    /\ UNCHANGED <<tp_run, tp_tasks, tp_mutex, wst, wtask, executed, stpc>>
    /\ OtherVarsTp

\* post_task: the locked block, with the second test of tp_run_
PostLocked ==
    /\ postpc = "lock"
    /\ tp_mutex = "free"
    /\ IF tp_run
       THEN /\ tp_tasks' = Append(tp_tasks, posted.accepted + 1)
            /\ posted' = [posted EXCEPT !.accepted = @ + 1]
            /\ postpc' = "notify"
       ELSE /\ tp_tasks' = tp_tasks
            /\ posted' = [posted EXCEPT !.rejected = @ + 1]
            /\ postpc' = "idle"
    /\ UNCHANGED <<tp_run, tp_mutex, wst, wtask, executed, stpc>>
    /\ OtherVarsTp

\* post_task: notify_one, which wakes one of the blocked workers if any
PostNotify ==
    /\ postpc = "notify"
    /\ IF Waiting = {}
       THEN wst' = wst
       ELSE \E w \in Waiting : wst' = [wst EXCEPT ![w] = "lock"]
    /\ postpc' = "idle"
    /\ UNCHANGED <<tp_run, tp_tasks, tp_mutex, wtask, executed, posted, stpc>>
    /\ OtherVarsTp

\* stop: the compare-exchange on tp_run_
TpStopCas ==
    /\ stpc = "idle"
    /\ IF tp_run
       THEN /\ tp_run' = FALSE
            /\ stpc' = "notify"
       ELSE /\ tp_run' = tp_run
            /\ stpc' = "done"
    /\ UNCHANGED <<tp_tasks, tp_mutex, wst, wtask, executed, postpc, posted>>
    /\ OtherVarsTp

\* stop: tp_task_cv_.notify_all()
TpStopNotify ==
    /\ stpc = "notify"
    /\ wst' = notify_all(wst)
    /\ stpc' = "swap"
    /\ UNCHANGED <<tp_run, tp_tasks, tp_mutex, wtask, executed, postpc, posted>>
    /\ OtherVarsTp

\* stop: to_join.swap(tp_pool_) under the mutex
TpStopSwap ==
    /\ stpc = "swap"
    /\ tp_mutex = "free"
    /\ stpc' = "join"
    /\ UNCHANGED <<tp_run, tp_tasks, tp_mutex, wst, wtask, executed, postpc,
                   posted>>
    /\ OtherVarsTp

\* stop: the joins return once every worker has left thread_worker
TpStopJoin ==
    /\ stpc = "join"
    /\ \A w \in TpWorkers : wst[w] = "exited"
    /\ stpc' = "done"
    /\ UNCHANGED <<tp_run, tp_tasks, tp_mutex, wst, wtask, executed, postpc,
                   posted>>
    /\ OtherVarsTp

TpInit ==
    /\ ConnStart
    /\ WheelIdle
    /\ LoopIdle
    /\ StopIdle
    /\ ServerIdle
    /\ PoolIdle
    /\ ChanIdle
    /\ MemIdle
    /\ BufIdle
    /\ ExhaustIdle
    /\ CbIdle
    /\ TpIdle
    /\ DispIdle
    /\ IdleMgrIdle
    /\ LifeIdle

WorkerStep(w) ==
    \/ WorkerLock(w)
    \/ WorkerPred(w)
    \/ WorkerBlock(w)
    \/ WorkerRun(w)

PostStep == PostCheck \/ PostLocked \/ PostNotify

TpStopStep == TpStopCas \/ TpStopNotify \/ TpStopSwap \/ TpStopJoin

NextTp ==
    \/ \E w \in TpWorkers : WorkerStep(w)
    \/ \E w \in TpWorkers : WorkerSpuriousWake(w)
    \/ PostStep
    \/ TpStopStep

\* every thread that can take a step takes it; a wait that nothing
\* notifies need not return
SpecThreadPool ==
    /\ TpInit
    /\ [][NextTp]_vars
    /\ \A w \in TpWorkers : WF_vars(WorkerStep(w))
    /\ WF_vars(PostStep)
    /\ WF_vars(TpStopStep)

\* ------------------------------------------------------------------------
\* Properties of the connection
\* ------------------------------------------------------------------------
\* the worker thread is inside handle_close and can still go on
InHandleClose == wpc \in {"close_idle", "close_registry", "close_user", "close_fd"}

\* the bytes handed to the kernel, directly or through the output buffer,
\* in the order the kernel gets them
Stream == sock.wire \o conn.output_buf

\* byte b is the one that follows byte a in the same send
NextByteOf(a, b) == b.t = a.t /\ b.k = a.k /\ b.i = a.i + 1

\* the worker thread waits in epoll_wait and nothing can wake it: no task is
\* queued or about to be, and the descriptor has no event to report
Quiet ==
    /\ wpc = "loop"
    /\ pending = <<>>
    /\ functors = <<>>
    /\ drained
    /\ \A t \in Callers : apc[t] = "idle"
    /\ \A space \in Spaces : Delivered(space) = {}

\* C1: in every interleaving of close triggers the user close callback runs
\* at most once and the descriptor is closed at most once, the descriptor
\* never before the callback; and once the connection is Disconnected and the
\* worker thread has no step of handle_close left to take, both have happened
\* exactly once.
C1_ClosedExactlyOnce ==
    /\ on_closed <= 1
    /\ sock.closes <= 1
    /\ sock.closes = 1 => on_closed = 1
    /\ conn.state = "Disconnected" /\ ~InHandleClose
          => on_closed = 1 /\ sock.closes = 1

\* the part of C1 the compare-and-swap in handle_close gives
AtMostOnce == on_closed <= 1 /\ sock.closes <= 1 /\ sock.closes <= on_closed

\* C2: when handle_event has handled a close of the peer (EOF, PeerHalfClosed,
\* Hangup or Error) on a connection that shutdown() had moved to
\* Disconnecting, the connection is Disconnected: the teardown has run.
C2_PeerCloseAfterShutdownTearsDown ==
    closeSeen /\ wpc = "loop"
       => conn.state = "Disconnected" /\ on_closed = 1 /\ sock.closes = 1

\* C3: the bytes of a send reach the kernel whole and in one piece before any
\* byte of another send follows them, and the sends of one thread reach it in
\* the order the thread made them.
C3_SendsWholeAndInOrder ==
    /\ \A i \in 1..(Len(Stream) - 1) :
          \/ NextByteOf(Stream[i], Stream[i + 1])
          \/ Stream[i].i = Stream[i].n /\ Stream[i + 1].i = 1
    /\ \A i, j \in 1..Len(Stream) :
          i < j /\ Stream[i].t = Stream[j].t => Stream[i].k <= Stream[j].k

\* the part of C3 that is about order alone: the bytes of a send are in
\* order, no other send's byte comes between two of them, and the sends of
\* one thread come in the order of the calls
SendsInOrder ==
    \A i, j \in 1..Len(Stream) :
        i < j =>
          /\ Stream[i].t = Stream[j].t => Stream[i].k <= Stream[j].k
          /\ Stream[i].t = Stream[j].t /\ Stream[i].k = Stream[j].k
                => /\ Stream[i].i < Stream[j].i
                   /\ \A m \in i..j : Stream[m].t = Stream[i].t
                                      /\ Stream[m].k = Stream[i].k

\* C4: the connection never stays Connected with part of an accepted send
\* dropped: while it is Connected and the worker thread is between handlers,
\* every send that has a byte with the kernel or in the output buffer has all
\* its bytes there.
C4_NoDroppedTailWhileConnected ==
    conn.state = "Connected" /\ wpc = "loop"
       => \A i \in 1..Len(Stream) :
             Stream[i].i < Stream[i].n
                => i < Len(Stream) /\ NextByteOf(Stream[i], Stream[i + 1])

\* C5: once add_new_tcp_conn has returned and the worker thread is not inside
\* handle_close, the registry holds the connection's descriptor if and only
\* if the connection is not Disconnected.
C5_RegistryMatchesLiveness ==
    acc = "done" /\ ~InHandleClose
       => (connections # {} <=> conn.state # "Disconnected")

\* C7: when the idle-timeout callback has fired for the connection, its
\* shutdown has run, the peer is silent and nothing more can happen on the
\* worker loop, the user close callback has run and the registry is empty.
C7_IdleTimeoutCloses ==
    idleFired /\ peer = [st |-> "open", data |-> FALSE] /\ Quiet
       => on_closed = 1 /\ connections = {}

\* C8: send() on a connection that is not Connected returns false without
\* enqueuing a task or touching the socket, and a queued sendInLoop that runs
\* when the connection is not Connected writes nothing and changes neither
\* the output buffer nor the channel.
C8_SendLogFailsFast ==
    \A e \in sendLog : e.st # "Connected" => ~e.ret

C8_RejectedSendStep ==
    \A t \in AppThreads :
        nops'[t] # nops[t] /\ sendLog' # sendLog /\ conn.state # "Connected"
           => /\ pending' = pending
              /\ sock' = sock
              /\ conn' = conn
              /\ apc'[t] = "idle"

C8_SendFailsFast == []C8_SendLogFailsFast /\ [][C8_RejectedSendStep]_vars

C8_Witness ==
    /\ [op |-> "send", st |-> "Disconnected", ret |-> FALSE] \in sendLog
    /\ [op |-> "sendInLoop", st |-> "Disconnected", ret |-> FALSE] \in sendLog

\* C9: however many shutdown() calls are made, the write side is half-closed
\* at most once and the user close callback runs at most once.
C9_HalfCloseAtMostOnce == sock.shutWr <= 1 /\ on_closed <= 1

\* ------------------------------------------------------------------------
\* Properties of the idle manager and of the loop
\* ------------------------------------------------------------------------
\* C6: a connection in the idle manager whose activity is never updated is
\* with the timeout callback no later than T + I after it was added.
C6_TimeoutWithinTPlusI ==
    /\ wentry # NoEntry /\ timeout_at = -1
          => now - wentry.last_activity_time <= wcfg.T + wcfg.I
    /\ timeout_at # -1
          => timeout_at - wentry.last_activity_time <= wcfg.T + wcfg.I

\* C10: the tasks one producer thread enqueued are executed in the order it
\* enqueued them.
C10_ProducerFifo ==
    \A i, j \in 1..Len(ran) :
        i < j /\ ran[i].p = ran[j].p => ran[i].n < ran[j].n

C10_Witness ==
    \E i, j, m \in 1..Len(ran) :
        /\ i < m /\ m < j
        /\ ran[i].p \in Producers
        /\ ran[i].p = ran[j].p
        /\ ran[m].p # ran[i].p
        /\ ran[i].drain # ran[j].drain

\* ------------------------------------------------------------------------
\* Properties of the loop's wake-up and stop
\* ------------------------------------------------------------------------
\* a task is on the queue, no producer is between its push and its wakeup,
\* and the owner thread is in the wait: the wait has its wake-up event
NoBlockedWait ==
    (lpc = "poll" /\ pending # <<>> /\ \A p \in Producers : ppc[p] # "wakeup")
        => (registered /\ wakeup_fd > 0)

\* C11: every task a thread other than the owner enqueues on a running loop
\* is followed by a write to the wake-up descriptor and is executed by the
\* owner thread, and the owner never waits, with no wake-up event due, while
\* the pending queue holds a task.
\* (The tasks enqueued and the tasks executed only grow, so "each enqueued
\* task is executed later on" is "again and again, every task enqueued so far
\* has been executed".)
C11_EnqueuedTasksRun ==
    /\ []NoBlockedWait
    /\ \A p \in Producers : (ppc[p] = "wakeup") ~> (ppc[p] = "idle")
    /\ []<>(\A p \in Producers : \A n \in 1..MaxTasks :
               (enq[p] >= n) => (LoopTask(p, n) \in RanTasks))

\* a producer's task was pushed while the owner was in the wait, with the
\* wake-up written, and is still pending
C11_Witness ==
    /\ lpc = "poll"
    /\ \E i \in 1..Len(pending) : pending[i].p \in Producers
    /\ wakeup_fd > 0
    /\ \E r \in Range(ran) : r.p = "ctor"

\* C12: when run() has returned, every task that was enqueued before stop()
\* was called on the loop has been executed.
C12_TasksBeforeStopRun ==
    (lpc = "exit" /\ before_stop.called) => before_stop.tasks \subseteq RanTasks

\* C13: whenever stop() is called on a loop, before or after its thread has
\* entered run(), run() returns, and the pool's stop(), which joins the
\* thread, returns.
C13_StopEndsRun ==
    /\ before_stop.called ~> (lpc \in {"exit", "skipped"})
    /\ \A s \in Stoppers : (spc[s] = "loop_stop") ~> (spc[s] = "returned")

\* C14: when the server's stop() has returned, the registry is empty and no
\* connection it held is still Connected.
C14_StopLeavesNoneConnected ==
    \A s \in Stoppers :
        spc[s] = "returned"
            => connections = {} /\ (ConnFd \in to_close[s] => conn.state # "Connected")

\* the threads whose stop() got past the compare-and-swap on started_
StopRunners == {s \in Stoppers : spc[s] \notin {"idle", "noop"}}

\* C15: stop() on a server that is not started (never started, already
\* stopped, or being stopped by another thread) acts on no component, and
\* the stop sequence acts on each component once per successful start.
C15_StopIdempotent ==
    /\ \A c \in Components : stop_acts[c] <= starts
    /\ Cardinality(StopRunners) <= starts
    /\ \A s \in Stoppers : spc[s] = "noop" => to_close[s] = {}
    /\ \A s \in Stoppers :
           spc[s] \in {"loop_stop", "loop_wake", "clear", "join", "returned"}
               => \A c \in Components : stop_acts[c] = 1

\* one stop() has run the whole sequence and returned, the other call was
\* made on the stopped server and returned without acting
C15_Witness ==
    \E s, t \in Stoppers :
        /\ spc[s] = "returned"
        /\ spc[t] = "noop"
        /\ \A c \in Components : stop_acts[c] = 1

\* stop() was called on a server that was never started
C15_WitnessNeverStarted ==
    starts = 0 /\ \E s \in Stoppers : spc[s] = "noop"

\* ------------------------------------------------------------------------
\* Properties of the loop pool
\* ------------------------------------------------------------------------
\* how many of the calls so far returned loop i
Assigned(i) == Cardinality({k \in 1..Len(got) : got[k] = i})

\* C16: with N >= 1 started worker loops the k-th call of get_next_loop
\* (k = 0, 1, ...) returns loop k mod N, and the numbers of calls that
\* returned any two loops differ by at most 1.
C16_RoundRobin ==
    nthreads >= 1 =>
        /\ \A k \in 1..Len(got) : got[k] = (k - 1) % nthreads
        /\ \A i, j \in 0..(nthreads - 1) : Assigned(i) - Assigned(j) <= 1

\* the calls have gone round more than once, with a call of another thread
\* between the count test and the pool's get_next_loop
C16_Witness ==
    /\ nthreads \in 2..3
    /\ Len(got) > nthreads
    /\ \E g \in Getters : gpc[g] = "next"

\* C17: a server constructed with io_thread_count = 0 starts no worker
\* thread and every connection is given the base loop.
C17_ZeroThreadsUsesBaseLoop ==
    (io_thread_count = 0 /\ pool_started) =>
        /\ nthreads = 0
        /\ \A k \in 1..Len(got) : got[k] = BaseLoop

\* ------------------------------------------------------------------------
\* Properties of the connection's state
\* ------------------------------------------------------------------------
\* the place of a state in the order of TcpConnection::State
StateRank(st) ==
    CASE st = "Connecting" -> 0
      [] st = "Connected" -> 1
      [] st = "Disconnecting" -> 2
      [] st = "Disconnected" -> 3

\* C18: no step moves the state of the connection to an earlier value of
\* Connecting, Connected, Disconnecting, Disconnected; Disconnected is final.
C18_StateOnlyAdvances ==
    [][StateRank(conn'.state) >= StateRank(conn.state)]_vars

\* the connection was closed by its peer while a shutdown requested by an
\* application thread was still queued, and the queued shutdownInLoop ran
C18_Witness ==
    /\ conn.state = "Disconnected"
    /\ on_connected = 1
    /\ \E t \in AppThreads : nops[t] > 0
    /\ pending = <<>>
    /\ functors = <<>>
    /\ drained

\* ------------------------------------------------------------------------
\* Properties of the channel's interest mask
\* ------------------------------------------------------------------------
\* every mutation has returned and every queued update task has run
ChanQuiet == chq = 0 /\ \A t \in ChanThreads : cpc[t] = "idle"

\* C19: once every mask mutation has returned and every queued update task
\* has run, the mask the notifier holds for the descriptor equals events_ of
\* the channel; with an empty events_ the descriptor is in neither the
\* notifier nor channels_.
C19_MaskSynchronized ==
    ChanQuiet =>
        IF ch_events = {}
        THEN ~ep_mask.reg /\ ~in_channels
        ELSE ep_mask.reg /\ in_channels /\ ep_mask.mask = ch_events

\* the owner thread and another thread have both changed the mask, and
\* the notifier holds the read and write interest
C19_Witness ==
    /\ ChanQuiet
    /\ cops[Owner] >= 1
    /\ cops["c1"] >= 1
    /\ ch_events = {"IN", "RDHUP", "OUT"}
    /\ ep_mask = [reg |-> TRUE, mask |-> {"IN", "RDHUP", "OUT"}]

\* C20: after any sequence of alloc_chunk and retrieve calls by any number
\* of threads, current_usage_bytes never exceeds max_capacity_bytes, whether
\* the chunk came from a free list or was newly created.
C20_UsageWithinCapacity == current_usage_bytes <= MaxCapacity

\* the chunks of size z handed out and not yet retrieved, over the threads
\* of T
RECURSIVE HeldCount(_, _)
HeldCount(T, z) ==
    IF T = {} THEN 0
    ELSE LET t == CHOOSE x \in T : TRUE
         IN  held[t][z] + HeldCount(T \ {t}, z)

\* the sum of their capacities, over the sizes of Z
RECURSIVE HeldBytes(_)
HeldBytes(Z) ==
    IF Z = {} THEN 0
    ELSE LET z == CHOOSE x \in Z : TRUE
         IN  z * HeldCount(MemThreads, z) + HeldBytes(Z \ {z})

RECURSIVE HeldChunks(_)
HeldChunks(Z) ==
    IF Z = {} THEN 0
    ELSE LET z == CHOOSE x \in Z : TRUE
         IN  HeldCount(MemThreads, z) + HeldChunks(Z \ {z})

\* C21: after any sequence of alloc_chunk and retrieve calls by any number
\* of threads, current_usage_bytes is the sum of the capacities of the
\* chunks handed out and not yet retrieved (so 0 once all are retrieved),
\* and the successful allocations exceed the successful retrievals by the
\* number of those chunks (so the two are equal once all are retrieved).
C21_UsageIsHeldBytes ==
    /\ current_usage_bytes = HeldBytes(ChunkSizes)
    /\ stats.total_allocations - stats.total_deallocations
           = HeldChunks(ChunkSizes)

\* chunks were allocated on both paths by both threads from the cap down,
\* and all of them have been retrieved
C21_Witness ==
    /\ stats.total_allocations = MaxAllocs
    /\ stats.total_deallocations = MaxAllocs
    /\ current_usage_bytes = 0
    /\ \A t \in MemThreads : mret[t].st = "chunk"

\* the largest size class
MaxChunkSize == CHOOSE z \in ChunkSizes : \A y \in ChunkSizes : y <= z

C22_OutputHeadZero == ob.head = 0 /\ opc # "aborted"

\* C23: an OutputBuffer never holds more than the 1 MiB limit, and a
\* write_to_buf call either appends all the given bytes and reports
\* success, or reports failure and leaves the buffered bytes unchanged.
C23_WriteToBufAllOrNothing ==
    /\ [](Len(ob.data) <= MaxBufferSize)
    /\ [][\A data \in WriteData :
            OutWriteToBuf(data) =>
                \/ oret'.rc = 0 /\ ob'.data = ob.data \o data
                \/ oret'.rc = -1 /\ ob'.data = ob.data]_vars

\* the buffer is full up to the limit after a write that had to move to a
\* larger chunk
C23_Witness ==
    /\ Len(ob.data) = MaxBufferSize
    /\ ob.capacity > DefaultBufferSize
    /\ oret = [op |-> "write_to_buf", rc |-> 0]

\* a write failed against a buffer that holds bytes
C23_WitnessFailed ==
    /\ Len(ob.data) > 0
    /\ oret = [op |-> "write_to_buf", rc |-> -1]

\* C24: whenever read_from_fd reaches its read(2), the InputBuffer's chunk
\* has head = 0 and at least the default buffer size free.
C24_ReadHasDefaultSpace ==
    ipc = "read" =>
        /\ ib.head = 0
        /\ ib.capacity - ib.length >= DefaultBufferSize

\* C26: under descriptor exhaustion every EMFILE/ENFILE iteration of the
\* accept loop removes one pending connection from the backlog and restores
\* the rescue descriptor, also when other threads open or close descriptors
\* between the steps of the rescue.
C26_RescueRemovesAndRestores ==
    rescue.last = "rescue" => rescue.removed /\ idle_fd >= 0

\* C27: an exception thrown by a user callback (on_connected, on_raw_data,
\* on_message, on_closed) never unwinds into the connection or the loop,
\* and the step that invoked it completes: after a throwing on_raw_data the
\* on_message callback is still invoked, and after a throwing on_closed the
\* descriptor is still closed.
C27_CallbackExceptionsContained ==
    /\ cbpc # "unwound"
    /\ \A i \in 1..Len(cblog) :
           /\ cblog[i].cb = "on_raw_data"
           /\ cblog[i].threw
           /\ "on_message" \in cbset
           => i < Len(cblog) /\ cblog[i + 1].cb = "on_message"
    /\ \A i \in 1..Len(cblog) :
           cblog[i].cb = "on_closed" => cbfd = -1 /\ cbpc = "closed"

\* every callback threw, on_message was invoked after the throwing
\* on_raw_data, and the connection is closed
C27_Witness ==
    /\ cbset = UserCallbacks
    /\ Len(cblog) >= 4
    /\ \A i \in 1..Len(cblog) : cblog[i].threw
    /\ cblog[2].cb = "on_raw_data"
    /\ cblog[3].cb = "on_message"
    /\ cblog[Len(cblog)].cb = "on_closed"
    /\ cbfd = -1

\* the number of times task k is in the log of executions
RECURSIVE Executions(_, _)
Executions(log, k) ==
    IF log = <<>> THEN 0
    ELSE (IF Head(log) = k THEN 1 ELSE 0) + Executions(Tail(log), k)

\* C28: after stop() is called, every task accepted earlier by post_task is
\* executed exactly once and stop() then returns with all workers exited,
\* in every interleaving of stop() with workers that are executing a task
\* or are about to wait for one.
C28_StopDrainsAndReturns ==
    (stpc # "idle") ~>
        /\ stpc = "done"
        /\ \A w \in TpWorkers : wst[w] = "exited"
        /\ \A k \in 1..posted.accepted : Executions(executed, k) = 1

\* C29: no thread tries to acquire the server registry mutex while it holds
\* it: every registry operation releases the mutex and returns, so a worker
\* loop closing a registered connection is never blocked for ever inside
\* remove_tcp_conn.
C29_NoRelockOfRegistryMutex == ~(wpc = "deadlock" /\ conn_mutex = Worker)

\* ------------------------------------------------------------------------
\* TcpConnection::handle_event, call by call (SpecDispatch)
\* ------------------------------------------------------------------------
MaxEvents == 3
MaxOut == 2

\* the masks epoll_wait can hand to Channel::handle_event
Masks == (SUBSET {"IN", "OUT", "RDHUP", "ERR", "HUP"}) \ {{}}

\* one call made inside handle_event: a handler or a callback entered, or a
\* system call on the descriptor connfd_ held at that moment; with it, what
\* the connection is at the call: state_, whether channel_ is set (and in
\* epoll), whether the registry holds the connection
Call(op, s) ==
    [op |-> op, fd |-> s.connfd, st |-> s.state, channel |-> s.channel,
     server_reg |-> s.server_reg]

Logged(s, op) == [s EXCEPT !.log = Append(@, Call(op, s))]

\* a handle_close that closes whatever the state is, short of Disconnected
close_cas_any(st) == st # "Disconnected"

\* the compare-exchange at the head of handle_close: it succeeds from
\* kConnected only
close_cas(st) == st = "Connected"

\* handle_close: the compare-exchange, the channel, close_cb_ (ts_close_cb ->
\* remove_tcp_conn, which does not return when it finds the connection), then
\* ::close(connfd_) and connfd_ = -1
TcHandleClose(s) ==
    LET s0 == Logged(s, "handle_close")
    IN  IF ~close_cas(s0.state) THEN s0
        ELSE LET s1 == Logged([s0 EXCEPT !.state = "Disconnected",
                                         !.channel = FALSE,
                                         !.epollout = FALSE], "close_cb")
                 r  == remove_tcp_conn(IF s1.server_reg THEN {s1.connfd} ELSE {},
                                       s1.connfd)
             IN  IF r.pc = "deadlock"
                 THEN [s1 EXCEPT !.server_reg = FALSE, !.pc = "deadlock"]
                 ELSE [Logged(Logged(s1, "on_closed"), "close")
                          EXCEPT !.connfd = -1]

TcHandleError(s) == TcHandleClose(s)

\* sendInLoop of one byte.  w: what the direct write(2) returns (-1 an error
\* other than EAGAIN, 0 EAGAIN, 1 the byte).  A byte that was not written goes
\* to the output buffer, if that has room, and EPOLLOUT is enabled.
TcSendInLoop(s, w) ==
    IF s.state # "Connected" THEN s
    ELSE IF s.out = 0
    THEN LET s0 == Logged(s, "write")
         IN  IF w < 0 THEN TcHandleError(s0)
             ELSE IF w = 0 THEN [s0 EXCEPT !.out = 1, !.epollout = TRUE]
             ELSE s0
    ELSE IF s.out < MaxOut THEN [s EXCEPT !.out = @ + 1, !.epollout = TRUE]
    ELSE [s EXCEPT !.epollout = TRUE]

\* ::shutdown(connfd_, SHUT_WR)
TcShutdownWr(s) == [Logged(s, "shutdown") EXCEPT !.shut_wr = TRUE]

\* shutdownInLoop
TcShutdownInLoop(s) ==
    IF s.state # "Connected" THEN s
    ELSE LET s0 == [s EXCEPT !.state = "Disconnecting"]
         IN  IF s0.out = 0 THEN TcShutdownWr(s0) ELSE s0

\* message_cb_: what the user's on_message does with the connection
TcMessageCb(s, u, w) ==
    IF u = "send" THEN TcSendInLoop(s, w)
    ELSE IF u = "shutdown" THEN TcShutdownInLoop(s)
    ELSE s

\* handle_read.  rd: what read_from_fd returned ("data", "zero", "err")
TcHandleRead(s, rd, u, w) ==
    LET s0 == Logged(Logged(s, "handle_read"), "read")
    IN  IF rd = "data" THEN TcMessageCb(s0, u, w)
        ELSE IF rd = "zero" THEN TcHandleClose(s0)
        ELSE TcHandleError(s0)

\* OutputBuffer::write_to_fd(connfd_).  k: what write(2) returns.  ndebug:
\* the build compiles the assert on the chunk's head away; a build that keeps
\* it aborts on a chunk a partial write has left with head # 0.
TcWriteToFd(s, k, ndebug) ==
    IF s.connfd < 0 THEN [s |-> s, n |-> -1]
    ELSE IF s.out = 0 THEN [s |-> s, n |-> 0]
    ELSE IF s.head # 0 /\ ~ndebug
    THEN [s |-> [s EXCEPT !.pc = "aborted"], n |-> 0]
    ELSE LET s0 == Logged(s, "write")
             n  == IF k > s.out THEN s.out ELSE k
         IN  IF n > 0
             THEN [s |-> [s0 EXCEPT !.out = @ - n,
                                    !.head = IF s.out - n = 0 THEN 0 ELSE 1],
                   n |-> n]
             ELSE [s |-> s0, n |-> n]

\* handle_write
TcHandleWrite(s, k, ndebug) ==
    LET r == TcWriteToFd(Logged(s, "handle_write"), k, ndebug)
    IN  IF r.s.pc = "aborted" THEN r.s
        ELSE IF r.n < 0 THEN TcHandleError(r.s)
        ELSE IF r.s.out = 0
        THEN IF ~r.s.channel THEN [r.s EXCEPT !.pc = "null_channel"]
             ELSE LET d == [r.s EXCEPT !.epollout = FALSE]
                  IN  IF d.state = "Disconnecting" THEN TcShutdownWr(d) ELSE d
        ELSE r.s

\* TcpConnection::handle_event(events), reached through
\* Channel::handle_event, whose tie_ holds the connection alive
TcHandleEvent(s, M, rd, u, w, k, ndebug) ==
    IF M \cap {"ERR", "HUP"} # {} THEN TcHandleError(s)
    ELSE IF "RDHUP" \in M THEN TcHandleClose(s)
    ELSE LET s1 == IF "IN" \in M THEN TcHandleRead(s, rd, u, w) ELSE s
         IN  IF s1.pc # "loop" THEN s1
             ELSE IF "OUT" \in M THEN TcHandleWrite(s1, k, ndebug)
             ELSE s1

\* handle_event returns to Channel::handle_event, unless a call inside it
\* has not returned
TcReturn(s) == IF s.pc = "loop" THEN Logged(s, "return") ELSE s

OtherVarsDisp ==
    UNCHANGED <<connVars, wheelVars, loopVars, stopVars, serverVars,
                rrVars, chanVars, memVars, bufVars, exhaustVars, cbVars,
                tpVars, idleVars, lifeVars>>

\* epoll_wait returns the connection's channel with mask M.  The inputs a
\* handler that is not called would take are held at one value.
DispatchEvent(M, rd, u, w, k, ndebug) ==
    /\ tc.pc = "loop"
    /\ tc.channel
    /\ hn < MaxEvents
    /\ tc' = TcReturn(TcHandleEvent([tc EXCEPT !.log = <<>>], M, rd, u, w, k,
                                    ndebug))
    /\ hmask' = M
    /\ hn' = hn + 1
    /\ OtherVarsDisp

\* add_new_tcp_conn on the acceptor's thread puts the connection in the
\* registry
DispatchAddNewTcpConn ==
    /\ tc.pc = "loop"
    /\ ~tc.server_reg
    /\ tc' = [tc EXCEPT !.server_reg = TRUE]
    /\ UNCHANGED <<hmask, hn>>
    /\ OtherVarsDisp

\* a sendInLoop an application thread queued runs between two deliveries
DispatchPendingSend(w) ==
    /\ tc.pc = "loop"
    /\ tc.channel
    /\ tc' = [TcSendInLoop(tc, w) EXCEPT !.log = tc.log]
    /\ tc' # tc
    /\ UNCHANGED <<hmask, hn>>
    /\ OtherVarsDisp

DispInit ==
    /\ ConnStart
    /\ WheelIdle
    /\ LoopIdle
    /\ ExtIdle

NextDisp ==
    \/ \E M \in Masks :
       \E rd \in (IF "IN" \in M THEN {"data", "zero", "err"} ELSE {"zero"}) :
       \E u \in (IF rd = "data" THEN {"none", "send", "shutdown"} ELSE {"none"}) :
       \E w \in (IF u = "send" THEN -1..1 ELSE {0}) :
       \E k \in (IF "OUT" \in M THEN -1..MaxOut ELSE {0}) :
       \E ndebug \in (IF "OUT" \in M THEN BOOLEAN ELSE {TRUE}) :
           DispatchEvent(M, rd, u, w, k, ndebug)
    \/ DispatchAddNewTcpConn
    \/ \E w \in -1..1 : DispatchPendingSend(w)

SpecDispatch == DispInit /\ [][NextDisp]_vars

\* ------------------------------------------------------------------------
\* The deferred half-close (SpecDrain): the connection with its socket, whose
\* send buffer always has room for a byte (a write(2) takes one byte or more),
\* and the level-triggered epoll that reports what the channel has enabled
\* ------------------------------------------------------------------------
\* the events epoll_wait reports for the connection: EPOLLIN and EPOLLRDHUP
\* are enabled from connect_established on
DrainReady ==
    (IF peer.data \/ peer.st = "fin" THEN {"IN"} ELSE {})
    \cup (IF peer.st = "fin" THEN {"RDHUP"} ELSE {})
    \cup (IF tc.epollout THEN {"OUT"} ELSE {})

OtherVarsDrain ==
    /\ UNCHANGED <<conn, sock, on_connected, on_closed, connections, conn_mutex,
                   idle_map, idle_slot, pending, functors, drained, wpc, acc,
                   accfd, apc, amsg, nops, nuser, sendLog, idleFired, closeSeen,
                   budget>>
    /\ UNCHANGED <<wheelVars, loopVars, stopVars, serverVars, rrVars, chanVars,
                   memVars, bufVars, exhaustVars, cbVars, tpVars, hn,
                   idleVars, lifeVars>>

\* epoll_wait returns the connection's channel
DrainEvent(u, w, k, ndebug) ==
    /\ tc.pc = "loop"
    /\ tc.channel
    /\ DrainReady # {}
    /\ tc' = TcReturn(TcHandleEvent([tc EXCEPT !.log = <<>>], DrainReady,
                                    IF peer.data THEN "data" ELSE "zero",
                                    u, w, k, ndebug))
    /\ hmask' = DrainReady
    /\ peer' = IF "RDHUP" \in DrainReady THEN peer
               ELSE [peer EXCEPT !.data = FALSE]
    /\ OtherVarsDrain

\* a sendInLoop an application thread queued runs on the loop
DrainSend(w) ==
    /\ tc.pc = "loop"
    /\ tc.channel
    /\ tc' = [TcSendInLoop(tc, w) EXCEPT !.log = tc.log]
    /\ tc' # tc
    /\ UNCHANGED <<hmask, peer>>
    /\ OtherVarsDrain

\* the shutdownInLoop that shutdown() queued runs on the loop
DrainShutdown ==
    /\ tc.pc = "loop"
    /\ tc.state = "Connected"
    /\ tc' = [TcShutdownInLoop(tc) EXCEPT !.log = tc.log]
    /\ UNCHANGED <<hmask, peer>>
    /\ OtherVarsDrain

\* add_new_tcp_conn on the acceptor's thread
DrainAddNewTcpConn ==
    /\ tc.pc = "loop"
    /\ ~tc.server_reg
    /\ tc' = [tc EXCEPT !.server_reg = TRUE]
    /\ UNCHANGED <<hmask, peer>>
    /\ OtherVarsDrain

\* the peer sends bytes
DrainPeerSend ==
    /\ peer.st = "open"
    /\ ~peer.data
    /\ peer' = [peer EXCEPT !.data = TRUE]
    /\ UNCHANGED <<tc, hmask>>
    /\ OtherVarsDrain

\* the peer closes its sending side (FIN); it goes on reading
DrainPeerFin ==
    /\ peer.st = "open"
    /\ peer' = [peer EXCEPT !.st = "fin"]
    /\ UNCHANGED <<tc, hmask>>
    /\ OtherVarsDrain

DrainStep ==
    \E u \in {"none", "send", "shutdown"}, w \in 0..1, k \in 1..MaxOut,
       ndebug \in BOOLEAN : DrainEvent(u, w, k, ndebug)

NextDrain ==
    \/ DrainStep
    \/ \E w \in 0..1 : DrainSend(w)
    \/ DrainShutdown
    \/ DrainAddNewTcpConn
    \/ DrainPeerSend
    \/ DrainPeerFin

\* the loop handles the events epoll reports for as long as it runs
SpecDrain == DispInit /\ [][NextDrain]_vars /\ WF_vars(DrainStep)

\* the calls of the latest handle_event that are among ops, in their order
CallsAmong(ops) ==
    LET IsAmong(e) == e.op \in ops
        sel == SelectSeq(tc.log, IsAmong)
    IN  [i \in 1..Len(sel) |-> sel[i].op]

\* C30: for the mask the latest handle_event was given: with Error or Hangup
\* in it, or else with PeerHalfClosed in it, handle_close is the only handler
\* that ran and nothing was read or written; otherwise handle_read ran if
\* Readable is in it and then handle_write ran if Writable is in it, and no
\* write(2) was made after the descriptor was closed.
C30_DispatchByMask ==
    hn > 0 =>
        IF hmask \cap {"ERR", "HUP", "RDHUP"} # {}
        THEN CallsAmong({"handle_close", "handle_read", "handle_write",
                         "read", "write"}) = <<"handle_close">>
        ELSE /\ CallsAmong({"handle_read", "handle_write"})
                    = (IF "IN" \in hmask THEN <<"handle_read">> ELSE <<>>)
                      \o (IF "OUT" \in hmask THEN <<"handle_write">> ELSE <<>>)
             /\ \A i \in 1..Len(tc.log), j \in 1..Len(tc.log) :
                    ~(i < j /\ tc.log[i].op = "close" /\ tc.log[j].op = "write")
             /\ \A i \in 1..Len(tc.log) :
                    tc.log[i].op = "write" => tc.log[i].fd >= 0

\* what a logged call found the connection to be
Found(e) == [e EXCEPT !.op = "found"]

\* C31: a handle_close entered while the state is not Connected changes
\* nothing and calls nothing: the call that follows it in the same
\* handle_event (or the return of handle_event) finds the state, the channel and
\* its registration, the descriptor and the registry as handle_close found
\* them, and that call is neither the close callback, the user's on_closed
\* nor close(2): handle_close returns at once.
C31_CloseOutsideConnectedIsNoOp ==
    \A i \in 1..Len(tc.log) :
        (tc.log[i].op = "handle_close" /\ tc.log[i].st # "Connected") =>
            /\ i < Len(tc.log)
            /\ Found(tc.log[i + 1]) = Found(tc.log[i])
            /\ tc.log[i + 1].op \notin {"close_cb", "on_closed", "close"}

\* handle_close has been entered in state Disconnecting (after a shutdown())
\* and handle_event has gone on after it
C31_Witness ==
    \E i \in 1..Len(tc.log) :
        /\ tc.log[i].op = "handle_close"
        /\ tc.log[i].st = "Disconnecting"
        /\ i < Len(tc.log)

\* the half-close is issued with an empty output buffer only
HalfCloseOnlyWhenDrained ==
    (~tc.shut_wr /\ tc'.shut_wr) => tc'.out = 0

\* C32: the write side is half-closed only when the output buffer is empty,
\* and a connection that shutdown() has made Disconnecting with bytes in its
\* output buffer, on a descriptor that takes every write, comes to have the
\* buffer written out and the write side half-closed.
C32_HalfCloseAfterDrain ==
    /\ [][HalfCloseOnlyWhenDrained]_vars
    /\ (tc.state = "Disconnecting" /\ tc.out > 0) ~> (tc.out = 0 /\ tc.shut_wr)

\* the step in which ts_close_cb invokes the user's on_closed
OnClosedInvoked == on_closed' = on_closed + 1

\* C33: when the user's on_closed is invoked the connection is Disconnected,
\* its channel is gone and nothing of it is registered with epoll, the
\* registry and the idle manager hold no entry for it, and its descriptor is
\* open: close(2) has not been called and is not called before on_closed
\* returns.
C33_OnClosedSeesTeardownDone ==
    [][OnClosedInvoked =>
          /\ conn.state = "Disconnected"
          /\ ~conn.channel
          /\ sock.registered = {}
          /\ ConnFd \notin connections
          /\ ~idle_map'
          /\ conn.connfd = ConnFd /\ conn'.connfd = ConnFd
          /\ sock.closes = 0 /\ sock'.closes = 0]_vars

\* ------------------------------------------------------------------------
\* ConnectionTimeoutManager, lock by lock (SpecIdle): one connection, the
\* threads that call add_connection, update_activity, remove_connection and
\* reset_all for it, the ticker and the cleanup thread.  A step is what a
\* thread does from one lock acquisition to the next.
\* ------------------------------------------------------------------------
MaxIdleTime == 3
MaxIdleOps == 2
MaxEntries == 1

\* idle_timeout_ms_, tick_interval_ms_, wheel_size_
ImCfg == [T |-> 1, I |-> 1, W |-> 2]

ImSlots == 0..(ImCfg.W - 1)

ticks_needed == wcfg.T \div wcfg.I

\* a slot mutex that stays with the thread after the block
slot_scope_kept(owner) == owner

\* the lock_guard on a slot mutex goes out of scope at the end of its block:
\* the mutex is free when the thread goes on
slot_scope_end(owner) == "free"

\* std::remove_if + erase of entry e
ImErase(list, e) ==
    LET Other(x) == x # e
    IN  SelectSeq(list, Other)

ImOtherVars ==
    UNCHANGED <<connVars, loopVars, stopVars, serverVars, rrVars, chanVars,
                memVars, bufVars, exhaustVars, cbVars, tpVars, dispVars,
                lifeVars, wcfg, tpc, time_wheel, wentry, wmap, timeout_at>>

ImCalled == [im_ghost EXCEPT !.ops = @ + 1]

ImMayCall(c) ==
    /\ im_pc[c] = "idle"
    /\ im_ghost.ops < MaxIdleOps

\* add_connection up to the lock of connections_mutex_: the slot, the ticks
\* and the new entry
ImAddBegin(c) ==
    /\ ImMayCall(c)
    /\ Len(im_entries) < MaxEntries
    /\ LET slot_pos == calculate_slot(wcfg, current_slot, now, now)
       IN  /\ im_entries' = Append(im_entries,
                                  [slot_position |-> slot_pos,
                                   remaining_ticks |-> ticks_needed,
                                   last_activity_time |-> now])
           /\ im_local' = [im_local EXCEPT ![c] =
                             [ImNoLocal EXCEPT !.entry = Len(im_entries) + 1,
                                               !.slot = slot_pos,
                                               !.stamp = now]]
    /\ im_pc' = [im_pc EXCEPT ![c] = "add_map"]
    /\ im_ghost' = ImCalled
    /\ UNCHANGED <<im_map, im_slots, im_mutex, im_total, im_connected,
                   now, next_tick, current_slot>>
    /\ ImOtherVars

\* add_connection under connections_mutex_: the map and the counter
ImAddInsert(c) ==
    /\ im_pc[c] = "add_map"
    /\ im_mutex.map = "free"
    /\ IF im_map # 0
       THEN /\ im_pc' = [im_pc EXCEPT ![c] = "idle"]
            /\ im_local' = [im_local EXCEPT ![c] = ImNoLocal]
            /\ UNCHANGED <<im_map, im_total, im_mutex>>
       ELSE /\ im_map' = im_local[c].entry
            /\ im_total' = im_total + 1
            /\ im_mutex' = [im_mutex EXCEPT !.map = c]
            /\ im_pc' = [im_pc EXCEPT ![c] = "add_slot"]
            /\ UNCHANGED im_local
    /\ UNCHANGED <<im_entries, im_slots, im_connected, im_ghost,
                   now, next_tick, current_slot>>
    /\ ImOtherVars

\* add_connection under connections_mutex_ and the slot's mutex: push_back
ImAddPush(c) ==
    /\ im_pc[c] = "add_slot"
    /\ im_mutex.slot[im_local[c].slot] = "free"
    /\ im_slots' = [im_slots EXCEPT ![im_local[c].slot] =
                      Append(@, im_local[c].entry)]
    /\ im_mutex' = [im_mutex EXCEPT !.map = "free"]
    /\ im_pc' = [im_pc EXCEPT ![c] = "idle"]
    /\ im_ghost' = [im_ghost EXCEPT !.adds = @ + 1,
                                    !.activity = Max(@, im_local[c].stamp),
                                    !.removed = FALSE]
    /\ im_local' = [im_local EXCEPT ![c] = ImNoLocal]
    /\ UNCHANGED <<im_map, im_entries, im_total, im_connected,
                   now, next_tick, current_slot>>
    /\ ImOtherVars

\* update_activity: the lookup under connections_mutex_
ImUpdLookup(c) ==
    /\ ImMayCall(c)
    /\ im_mutex.map = "free"
    /\ IF im_map = 0
       THEN UNCHANGED <<im_pc, im_local>>
       ELSE /\ im_pc' = [im_pc EXCEPT ![c] = "upd_time"]
            /\ im_local' = [im_local EXCEPT ![c] =
                              [ImNoLocal EXCEPT !.entry = im_map]]
    /\ im_ghost' = ImCalled
    /\ UNCHANGED <<im_map, im_entries, im_slots, im_mutex, im_total,
                   im_connected, now, next_tick, current_slot>>
    /\ ImOtherVars

\* update_activity: entry->last_activity_time = now, with no lock held
ImUpdTime(c) ==
    /\ im_pc[c] = "upd_time"
    /\ im_entries' = [im_entries EXCEPT
                        ![im_local[c].entry].last_activity_time = now]
    /\ im_local' = [im_local EXCEPT ![c].stamp = now]
    /\ im_pc' = [im_pc EXCEPT ![c] = "move"]
    /\ UNCHANGED <<im_map, im_slots, im_mutex, im_total, im_connected,
                   im_ghost, now, next_tick, current_slot>>
    /\ ImOtherVars

\* reset_all: connections_mutex_ is taken and kept; the entry's time is set
ImResetBegin(c) ==
    /\ ImMayCall(c)
    /\ im_mutex.map = "free"
    /\ IF im_map = 0
       THEN UNCHANGED <<im_pc, im_local, im_entries, im_mutex>>
       ELSE /\ im_entries' = [im_entries EXCEPT
                                ![im_map].last_activity_time = now]
            /\ im_local' = [im_local EXCEPT ![c] =
                              [ImNoLocal EXCEPT !.entry = im_map,
                                                !.reset = TRUE,
                                                !.stamp = now]]
            /\ im_mutex' = [im_mutex EXCEPT !.map = c]
            /\ im_pc' = [im_pc EXCEPT ![c] = "move"]
    /\ im_ghost' = ImCalled
    /\ UNCHANGED <<im_map, im_slots, im_total, im_connected,
                   now, next_tick, current_slot>>
    /\ ImOtherVars

\* the call that ran move_to_new_slot returns: update_activity, or reset_all,
\* which gives connections_mutex_ back
ImReturned(c) ==
    /\ im_pc' = [im_pc EXCEPT ![c] = "idle"]
    /\ im_local' = [im_local EXCEPT ![c] = ImNoLocal]
    /\ im_ghost' = IF im_local[c].reset THEN im_ghost
                   ELSE [im_ghost EXCEPT !.activity = Max(@, im_local[c].stamp)]

ImMutexAfterMove(c, mutex) ==
    IF im_local[c].reset THEN [mutex EXCEPT !.map = "free"] ELSE mutex

\* move_to_new_slot up to the old slot's mutex: the new slot is computed; an
\* entry that stays in its slot gets its ticks back
ImMoveCalc(c) ==
    /\ im_pc[c] = "move"
    /\ LET e == im_local[c].entry
           new_slot_pos == calculate_slot(wcfg, current_slot,
                                          im_entries[e].last_activity_time, now)
       IN  IF new_slot_pos = im_entries[e].slot_position
           THEN /\ im_entries' = [im_entries EXCEPT
                                    ![e].remaining_ticks = ticks_needed]
                /\ im_mutex' = ImMutexAfterMove(c, im_mutex)
                /\ ImReturned(c)
           ELSE /\ im_local' = [im_local EXCEPT ![c].slot = new_slot_pos]
                /\ im_pc' = [im_pc EXCEPT ![c] = "move_old"]
                /\ UNCHANGED <<im_entries, im_mutex, im_ghost>>
    /\ UNCHANGED <<im_map, im_slots, im_total, im_connected,
                   now, next_tick, current_slot>>
    /\ ImOtherVars

\* move_to_new_slot under the old slot's mutex: the entry is erased from the
\* old slot; then slot_position and remaining_ticks are set
ImMoveOld(c) ==
    /\ im_pc[c] = "move_old"
    /\ LET e == im_local[c].entry
           old == im_entries[e].slot_position
       IN  /\ im_mutex.slot[old] = "free"
           /\ im_slots' = [im_slots EXCEPT ![old] = ImErase(@, e)]
           /\ im_entries' = [im_entries EXCEPT
                               ![e].slot_position = im_local[c].slot,
                               ![e].remaining_ticks = ticks_needed]
    /\ im_pc' = [im_pc EXCEPT ![c] = "move_new"]
    /\ UNCHANGED <<im_map, im_mutex, im_total, im_local, im_connected, im_ghost,
                   now, next_tick, current_slot>>
    /\ ImOtherVars

\* move_to_new_slot under the new slot's mutex: push_back
ImMoveNew(c) ==
    /\ im_pc[c] = "move_new"
    /\ im_mutex.slot[im_local[c].slot] = "free"
    /\ im_slots' = [im_slots EXCEPT ![im_local[c].slot] =
                      Append(@, im_local[c].entry)]
    /\ im_mutex' = ImMutexAfterMove(c, im_mutex)
    /\ ImReturned(c)
    /\ UNCHANGED <<im_map, im_entries, im_total, im_connected,
                   now, next_tick, current_slot>>
    /\ ImOtherVars

\* remove_connection under connections_mutex_; t: the calling thread.  The
\* entry stays in its slot.
remove_connection(map, total) ==
    IF map = 0 THEN [map |-> map, total |-> total]
    ELSE [map |-> 0, total |-> total - 1]

ImRemove(c) ==
    /\ ImMayCall(c)
    /\ im_mutex.map = "free"
    /\ im_map' = remove_connection(im_map, im_total).map
    /\ im_total' = remove_connection(im_map, im_total).total
    /\ im_ghost' = [ImCalled EXCEPT !.removed = TRUE]
    /\ UNCHANGED <<im_entries, im_slots, im_mutex, im_pc, im_local,
                   im_connected, now, next_tick, current_slot>>
    /\ ImOtherVars

\* the scan of process_timeout_connections over the entries of a slot, in
\* their order, with the clock at t
RECURSIVE ImScan(_, _, _, _, _)
ImScan(list, entries, keep, expired, t) ==
    IF list = <<>>
    THEN [entries |-> entries, keep |-> keep, expired |-> expired]
    ELSE LET e == Head(list)
         IN  IF entries[e].remaining_ticks > 0
             THEN ImScan(Tail(list),
                         [entries EXCEPT ![e].remaining_ticks = @ - 1],
                         Append(keep, e), expired, t)
             ELSE IF t - entries[e].last_activity_time >= wcfg.T
             THEN ImScan(Tail(list), entries, keep, Append(expired, e), t)
             ELSE ImScan(Tail(list), entries, Append(keep, e), expired, t)

\* time_wheel_loop wakes up: process_timeout_connections takes the mutex of
\* the current slot
ImTickLock ==
    /\ im_pc["ticker"] = "idle"
    /\ now = next_tick
    /\ im_mutex.slot[current_slot] = "free"
    /\ im_mutex' = [im_mutex EXCEPT !.slot[current_slot] = "ticker"]
    /\ im_pc' = [im_pc EXCEPT !["ticker"] = "scan"]
    /\ UNCHANGED <<im_map, im_entries, im_slots, im_total, im_local,
                   im_connected, im_ghost, now, next_tick, current_slot>>
    /\ ImOtherVars

\* process_timeout_connections scans the current slot under its mutex; the
\* mutex is given back at the end of the block
ImTickScan ==
    /\ im_pc["ticker"] = "scan"
    /\ LET r == ImScan(im_slots[current_slot], im_entries, <<>>, <<>>, now)
       IN  /\ im_entries' = r.entries
           /\ im_slots' = [im_slots EXCEPT ![current_slot] = r.keep]
           /\ im_local' = [im_local EXCEPT !["ticker"] =
                             [ImNoLocal EXCEPT !.list = r.expired,
                                               !.stamp = now]]
           /\ im_pc' = [im_pc EXCEPT !["ticker"] =
                          IF r.expired = <<>> THEN "advance" ELSE "expire"]
    /\ im_mutex' = [im_mutex EXCEPT !.slot[current_slot] =
                      slot_scope_end("ticker")]
    /\ UNCHANGED <<im_map, im_total, im_connected, im_ghost,
                   now, next_tick, current_slot>>
    /\ ImOtherVars

\* process_timeout_connections, for an expired entry: the descriptor is
\* erased from the map under connections_mutex_ and the counter goes down
ImTickErase ==
    /\ im_pc["ticker"] = "expire"
    /\ im_mutex.map = "free"
    /\ im_map' = 0
    /\ im_total' = im_total - 1
    /\ im_pc' = [im_pc EXCEPT !["ticker"] = "callback"]
    /\ UNCHANGED <<im_entries, im_slots, im_mutex, im_local, im_connected,
                   im_ghost, now, next_tick, current_slot>>
    /\ ImOtherVars

\* process_timeout_connections, for an expired entry: timeout_callback_, which
\* is the server's on_connection_idle_timeout: conn->shutdown()
ImTickCallback ==
    /\ im_pc["ticker"] = "callback"
    /\ im_ghost' = [im_ghost EXCEPT
                      !.callbacks = @ + 1,
                      !.fresh = @ \/ now - im_ghost.activity < wcfg.T,
                      !.after_remove = @ \/ im_ghost.removed]
    /\ im_connected' = FALSE
    /\ im_local' = [im_local EXCEPT !["ticker"].list = Tail(@)]
    /\ im_pc' = [im_pc EXCEPT !["ticker"] =
                   IF Tail(im_local["ticker"].list) = <<>> THEN "advance"
                   ELSE "expire"]
    /\ UNCHANGED <<im_map, im_entries, im_slots, im_mutex, im_total,
                   now, next_tick, current_slot>>
    /\ ImOtherVars

\* time_wheel_loop: current_slot_ moves on; the thread sleeps for what is
\* left of the tick interval
ImTickAdvance ==
    /\ im_pc["ticker"] = "advance"
    /\ current_slot' = (current_slot + 1) % wcfg.W
    /\ next_tick' = im_local["ticker"].stamp + wcfg.I
    /\ im_pc' = [im_pc EXCEPT !["ticker"] = "idle"]
    /\ im_local' = [im_local EXCEPT !["ticker"] = ImNoLocal]
    /\ UNCHANGED <<im_map, im_entries, im_slots, im_mutex, im_total,
                   im_connected, im_ghost, now>>
    /\ ImOtherVars

\* cleanup_closed_connections: the map is walked under connections_mutex_ for
\* connections that are not connected
ImCleanCollect ==
    /\ im_pc["cleaner"] = "idle"
    /\ im_mutex.map = "free"
    /\ im_map # 0
    /\ ~im_connected
    /\ im_pc' = [im_pc EXCEPT !["cleaner"] = "clean_remove"]
    /\ UNCHANGED <<im_map, im_entries, im_slots, im_mutex, im_total, im_local,
                   im_connected, im_ghost, now, next_tick, current_slot>>
    /\ ImOtherVars

\* cleanup_closed_connections: remove_connection(conn_id)
ImCleanRemove ==
    /\ im_pc["cleaner"] = "clean_remove"
    /\ im_mutex.map = "free"
    /\ im_map' = remove_connection(im_map, im_total).map
    /\ im_total' = remove_connection(im_map, im_total).total
    /\ im_ghost' = [im_ghost EXCEPT !.removed = TRUE]
    /\ im_local' = [im_local EXCEPT !["cleaner"].slot = 0]
    /\ im_pc' = [im_pc EXCEPT !["cleaner"] = "clean_slot"]
    /\ UNCHANGED <<im_entries, im_slots, im_mutex, im_connected,
                   now, next_tick, current_slot>>
    /\ ImOtherVars

\* cleanup_closed_connections: the entries of the descriptor are erased from
\* one slot after the other, each under its mutex
ImCleanSlot ==
    /\ im_pc["cleaner"] = "clean_slot"
    /\ LET i == im_local["cleaner"].slot
       IN  /\ im_mutex.slot[i] = "free"
           /\ im_slots' = [im_slots EXCEPT ![i] = <<>>]
           /\ IF i + 1 = wcfg.W
              THEN /\ im_pc' = [im_pc EXCEPT !["cleaner"] = "idle"]
                   /\ im_local' = [im_local EXCEPT !["cleaner"] = ImNoLocal]
              ELSE /\ im_pc' = im_pc
                   /\ im_local' = [im_local EXCEPT !["cleaner"].slot = i + 1]
    /\ UNCHANGED <<im_map, im_entries, im_mutex, im_total, im_connected,
                   im_ghost, now, next_tick, current_slot>>
    /\ ImOtherVars

\* the clock; the ticker wakes up on time
ImTimePass ==
    /\ now < MaxIdleTime
    /\ now < next_tick
    /\ now' = now + 1
    /\ UNCHANGED <<idleVars, next_tick, current_slot>>
    /\ ImOtherVars

\* the connection is closed by its worker loop
ImConnClosed ==
    /\ im_connected
    /\ im_connected' = FALSE
    /\ UNCHANGED <<im_map, im_entries, im_slots, im_mutex, im_total, im_pc,
                   im_local, im_ghost, now, next_tick, current_slot>>
    /\ ImOtherVars

ImInit ==
    /\ ConnStart
    /\ LoopIdle
    /\ StopIdle
    /\ ServerIdle
    /\ PoolIdle
    /\ ChanIdle
    /\ MemIdle
    /\ BufIdle
    /\ ExhaustIdle
    /\ CbIdle
    /\ TpIdle
    /\ DispIdle
    /\ LifeIdle
    /\ wcfg = ImCfg
    /\ now = 0
    /\ next_tick = 0
    /\ tpc = "sleep"
    /\ current_slot = 0
    /\ time_wheel = [i \in 0..0 |-> {}]
    /\ wentry = NoEntry
    /\ wmap = {}
    /\ timeout_at = -1
    /\ im_map = 0
    /\ im_entries = <<>>
    /\ im_slots = [i \in ImSlots |-> <<>>]
    /\ im_mutex = [map |-> "free", slot |-> [i \in ImSlots |-> "free"]]
    /\ im_total = 0
    /\ im_pc = [t \in ImThreads |-> "idle"]
    /\ im_local = [t \in ImThreads |-> ImNoLocal]
    /\ im_connected = TRUE
    /\ im_ghost = ImNoGhost

NextIdle ==
    \/ \E c \in ImCallers : ImAddBegin(c)
    \/ \E c \in ImCallers : ImAddInsert(c)
    \/ \E c \in ImCallers : ImAddPush(c)
    \/ \E c \in ImCallers : ImUpdLookup(c)
    \/ \E c \in ImCallers : ImUpdTime(c)
    \/ \E c \in ImCallers : ImResetBegin(c)
    \/ \E c \in ImCallers : ImMoveCalc(c)
    \/ \E c \in ImCallers : ImMoveOld(c)
    \/ \E c \in ImCallers : ImMoveNew(c)
    \/ \E c \in ImCallers : ImRemove(c)
    \/ ImTickLock
    \/ ImTickScan
    \/ ImTickErase
    \/ ImTickCallback
    \/ ImTickAdvance
    \/ ImCleanCollect
    \/ ImCleanRemove
    \/ ImCleanSlot
    \/ ImTimePass
    \/ ImConnClosed

SpecIdle == ImInit /\ [][NextIdle]_vars

\* C34: the timeout callback has never been invoked for the connection less
\* than T after its latest activity (its add_connection, or the latest
\* update_activity that had returned).
C34_NoTimeoutWhileActive == ~im_ghost.fresh

\* C35: the timeout callback has been invoked at most once for each
\* add_connection that inserted the connection and never after a
\* remove_connection for it had returned, and total_connections_ has not gone
\* below zero (it goes down once for each connection added).
C35_TimeoutOncePerAdd ==
    /\ im_ghost.callbacks <= im_ghost.adds
    /\ ~im_ghost.after_remove
    /\ im_total >= 0

\* no operation of the idle manager is in progress
ImQuiet == \A t \in ImThreads : im_pc[t] = "idle"

\* the slots that hold entry e, with the number of times each holds it
ImOccurrences(e) ==
    {<<i, k>> \in ImSlots \X (1..(2 * MaxEntries)) :
        k <= Len(im_slots[i]) /\ im_slots[i][k] = e}

\* C36: with no idle-manager operation in progress, the entries in the slot
\* lists are the entries of the map: the map's entry is in one slot list,
\* once, in the slot its slot_position names, and the slot lists hold no other
\* entry.
C36_SlotsMatchMap ==
    ImQuiet =>
        /\ \A e \in 1..Len(im_entries) :
               e # im_map => ImOccurrences(e) = {}
        /\ im_map # 0 =>
               /\ Cardinality(ImOccurrences(im_map)) = 1
               /\ \A o \in ImOccurrences(im_map) :
                      o[1] = im_entries[im_map].slot_position

\* the slot mutexes thread t holds
ImHeldSlots(t) == {i \in ImSlots : im_mutex.slot[i] = t}

\* the next step of thread t, which is inside an operation, locks
\* connections_mutex_
ImWantsMap(t) == im_pc[t] \in {"add_map", "expire", "clean_remove"}

\* the slot mutexes the next step of thread t, which is inside an operation,
\* locks
ImWantsSlot(t) ==
    CASE im_pc[t] \in {"add_slot", "move_new", "clean_slot"} ->
             {im_local[t].slot}
      [] im_pc[t] = "move_old" ->
             {im_entries[im_local[t].entry].slot_position}
      [] OTHER -> {}

\* the thread that holds the mutex thread t is about to lock, "free" if
\* nobody holds it, "none" if t is not about to lock a mutex
ImWaitsFor(t) ==
    IF t \notin ImThreads THEN "none"
    ELSE IF ImWantsMap(t) THEN im_mutex.map
    ELSE IF ImWantsSlot(t) # {}
    THEN im_mutex.slot[CHOOSE i \in ImWantsSlot(t) : TRUE]
    ELSE "none"

\* thread t is in a cycle of threads each of which waits for a mutex the next
\* one holds (a thread that locks a mutex it holds itself is a cycle of one)
ImInWaitCycle(t) ==
    \/ ImWaitsFor(t) = t
    \/ ImWaitsFor(ImWaitsFor(t)) = t
    \/ ImWaitsFor(ImWaitsFor(ImWaitsFor(t))) = t
    \/ ImWaitsFor(ImWaitsFor(ImWaitsFor(ImWaitsFor(t)))) = t

\* C37: in the idle manager a thread that holds a slot mutex is not about to
\* lock the map mutex or another slot mutex and holds one slot mutex only, the
\* ticker holds no mutex when it invokes the timeout callback, and no set of
\* threads waits in a cycle for mutexes held by one another.
C37_LockOrderNoDeadlock ==
    /\ \A t \in ImThreads :
           /\ Cardinality(ImHeldSlots(t)) <= 1
           /\ ImHeldSlots(t) # {} =>
                  /\ ~ImWantsMap(t)
                  /\ ImWantsSlot(t) \subseteq ImHeldSlots(t)
           /\ ~ImInWaitCycle(t)
    /\ im_pc["ticker"] = "callback" =>
           /\ im_mutex.map # "ticker"
           /\ ImHeldSlots("ticker") = {}

\* a caller inside reset_all or add_connection holds the map mutex and waits
\* for the mutex of the slot the ticker is scanning
C37_Witness ==
    \E c \in ImCallers :
        /\ im_mutex.map = c
        /\ ImWaitsFor(c) = "ticker"
        /\ im_pc["ticker"] = "scan"

\* the step of EventLoopThreadPool::stop that destroys the per-thread records
\* and their EventLoops
PoolDestroys == ~destroyed /\ destroyed'

\* C38: EventLoopThreadPool::stop destroys the worker's EventLoop and its
\* per-thread record only when the worker thread has left run() and the code
\* that follows it (the thread has exited, so the join returns at once).
C38_DestroyedAfterThreadLeft == [][PoolDestroys => lpc = "exit"]_vars

\* ------------------------------------------------------------------------
\* TcpServer::start and stop, the acceptor and the base loop (SpecLife)
\* ------------------------------------------------------------------------
MaxStarts == 2
MaxStops == 2

\* what can go wrong inside Acceptor::Acceptor
CtorFailures == {"socket", "bad_ip", "bind"}

LifeOther ==
    UNCHANGED <<connVars, wheelVars, loopVars, stopVars, serverVars, rrVars,
                chanVars, memVars, bufVars, exhaustVars, cbVars, tpVars,
                dispVars, idleVars>>

\* thread c is free to call start() or stop(); the base loop's thread calls
\* them from a functor, between two events
LfMayCall(c) ==
    /\ lf_pc[c] = "idle"
    /\ c = "base" => lf_base = "poll"

\* the base loop's thread is inside the call until the call returns
LfBase(c, pc) ==
    IF c # "base" THEN lf_base
    ELSE IF pc = "idle" THEN "poll" ELSE "busy"

\* thread c goes on to pc
LfGoto(c, pc) ==
    /\ lf_pc' = [lf_pc EXCEPT ![c] = pc]
    /\ lf_base' = LfBase(c, pc)

\* TcpServer::start: the compare-and-swap on started_.  A restart of a server
\* whose acceptor stop() has destroyed is not explored.
LfStartCas(c) ==
    /\ LfMayCall(c)
    /\ lf_ghost.starts < MaxStarts
    /\ lf_acceptor # "destroyed"
    /\ IF ~lf_started
       THEN /\ lf_started' = TRUE
            /\ LfGoto(c, "start_idle")
            /\ lf_ghost' = [lf_ghost EXCEPT !.starts = @ + 1]
       ELSE /\ lf_started' = lf_started
            /\ LfGoto(c, "idle")
            /\ lf_ghost' = [lf_ghost EXCEPT !.starts = @ + 1,
                                            !.ignored = @ \/ lf_ghost.threw]
    /\ UNCHANGED <<lf_cfg, lf_threads, lf_acceptor, lf_listen_fd, lf_channel,
                   lf_backlog, lf_registry, lf_pending>>
    /\ LifeOther

\* TcpServer::start 1): the idle manager is made and started when the idle
\* timeout is enabled
LfStartIdleManager(c) ==
    /\ lf_pc[c] = "start_idle"
    /\ lf_threads' = [lf_threads EXCEPT !.idle = @ \/ lf_cfg]
    /\ LfGoto(c, "start_pool")
    /\ UNCHANGED <<lf_started, lf_cfg, lf_acceptor, lf_listen_fd, lf_channel,
                   lf_backlog, lf_registry, lf_pending, lf_ghost>>
    /\ LifeOther

\* TcpServer::start 2): thread_pool_->start
LfStartPool(c) ==
    /\ lf_pc[c] = "start_pool"
    /\ lf_threads' = [lf_threads EXCEPT !.pool = TRUE]
    /\ LfGoto(c, "start_acceptor")
    /\ UNCHANGED <<lf_started, lf_cfg, lf_acceptor, lf_listen_fd, lf_channel,
                   lf_backlog, lf_registry, lf_pending, lf_ghost>>
    /\ LifeOther

\* TcpServer::start 3): std::make_unique<Acceptor>; the constructor throws
\* when socket(), inet_pton or bind fails, and the exception leaves start()
LfStartAcceptor(c, fail) ==
    /\ lf_pc[c] = "start_acceptor"
    /\ IF fail \in CtorFailures
       THEN /\ LfGoto(c, "idle")
            /\ lf_ghost' = [lf_ghost EXCEPT !.threw = TRUE]
            /\ UNCHANGED <<lf_acceptor, lf_listen_fd, lf_channel>>
       ELSE /\ lf_acceptor' = "alive"
            /\ lf_listen_fd' = "open"
            /\ lf_channel' = [events |-> "none", in_loop |-> FALSE]
            /\ LfGoto(c, "start_listen")
            /\ lf_ghost' = lf_ghost
    /\ UNCHANGED <<lf_started, lf_cfg, lf_threads, lf_backlog, lf_registry,
                   lf_pending>>
    /\ LifeOther

\* TcpServer::start 4): acceptor_->listen(); it throws when listen(2) fails,
\* else enable_read runs on the base loop: at once on its thread, as a
\* pending functor from another thread
LfStartListen(c, fail) ==
    /\ lf_pc[c] = "start_listen"
    /\ IF fail = "listen"
       THEN /\ lf_ghost' = [lf_ghost EXCEPT !.threw = TRUE]
            /\ UNCHANGED <<lf_channel, lf_pending>>
       ELSE /\ lf_ghost' = lf_ghost
            /\ IF c = "base"
               THEN /\ lf_channel' = [events |-> "read", in_loop |-> TRUE]
                    /\ lf_pending' = lf_pending
               ELSE /\ lf_pending' = Append(lf_pending, "enable_read")
                    /\ lf_channel' = lf_channel
    /\ LfGoto(c, "idle")
    /\ UNCHANGED <<lf_started, lf_cfg, lf_threads, lf_acceptor, lf_listen_fd,
                   lf_backlog, lf_registry>>
    /\ LifeOther

\* TcpServer::stop: the compare-and-swap on started_
LfStopCas(c) ==
    /\ LfMayCall(c)
    /\ lf_ghost.stops < MaxStops
    /\ IF lf_started
       THEN /\ lf_started' = FALSE
            /\ LfGoto(c, "stop_idle")
            /\ lf_ghost' = [lf_ghost EXCEPT !.stops = @ + 1, !.threw = FALSE]
       ELSE /\ lf_started' = lf_started
            /\ LfGoto(c, "idle")
            /\ lf_ghost' = [lf_ghost EXCEPT !.stops = @ + 1]
    /\ UNCHANGED <<lf_cfg, lf_threads, lf_acceptor, lf_listen_fd, lf_channel,
                   lf_backlog, lf_registry, lf_pending>>
    /\ LifeOther

\* TcpServer::stop 1): idle_manager_->stop() joins its threads
LfStopIdleManager(c) ==
    /\ lf_pc[c] = "stop_idle"
    /\ lf_threads' = [lf_threads EXCEPT !.idle = FALSE]
    /\ LfGoto(c, "stop_acceptor")
    /\ UNCHANGED <<lf_started, lf_cfg, lf_acceptor, lf_listen_fd, lf_channel,
                   lf_backlog, lf_registry, lf_pending, lf_ghost>>
    /\ LifeOther

\* TcpServer::stop 2): acceptor_.reset().  ~Acceptor disables the channel at
\* once on the loop's thread; from another thread it moves the channel into a
\* functor queued on the loop.  Then it closes the listening descriptor.
LfDropAcceptor(c) ==
    /\ lf_pc[c] = "stop_acceptor"
    /\ IF lf_acceptor = "alive"
       THEN /\ lf_acceptor' = "destroyed"
            /\ lf_listen_fd' = "closed"
            /\ lf_ghost' = [lf_ghost EXCEPT !.dropped = TRUE]
            /\ IF c = "base"
               THEN /\ lf_channel' = [events |-> "none", in_loop |-> FALSE]
                    /\ lf_pending' = lf_pending
               ELSE /\ lf_pending' = Append(lf_pending, "disable_all")
                    /\ lf_channel' = lf_channel
       ELSE UNCHANGED <<lf_acceptor, lf_listen_fd, lf_ghost, lf_channel,
                        lf_pending>>
    /\ LfGoto(c, "stop_snapshot")
    /\ UNCHANGED <<lf_started, lf_cfg, lf_threads, lf_backlog, lf_registry>>
    /\ LifeOther

\* TcpServer::stop 3) and 4): the registry is moved out and cleared under
\* conn_mutex_, and the connections are shut down
LfStopSnapshot(c) ==
    /\ lf_pc[c] = "stop_snapshot"
    /\ lf_registry' = 0
    /\ lf_ghost' = [lf_ghost EXCEPT !.cleared = TRUE]
    /\ LfGoto(c, "stop_pool")
    /\ UNCHANGED <<lf_started, lf_cfg, lf_threads, lf_acceptor, lf_listen_fd,
                   lf_channel, lf_backlog, lf_pending>>
    /\ LifeOther

\* TcpServer::stop 5): thread_pool_->stop()
LfStopPool(c) ==
    /\ lf_pc[c] = "stop_pool"
    /\ lf_threads' = [lf_threads EXCEPT !.pool = FALSE]
    /\ LfGoto(c, "idle")
    /\ UNCHANGED <<lf_started, lf_cfg, lf_acceptor, lf_listen_fd, lf_channel,
                   lf_backlog, lf_registry, lf_pending, lf_ghost>>
    /\ LifeOther

\* the base loop runs a pending functor: listen()'s lambda, which calls
\* channel_->enable_read() through the acceptor, or ~Acceptor's lambda, which
\* calls disable_all() on the channel it holds
LfFunctor ==
    /\ lf_base = "poll"
    /\ lf_pending # <<>>
    /\ lf_pending' = Tail(lf_pending)
    /\ IF Head(lf_pending) = "enable_read"
       THEN IF lf_acceptor = "alive"
            THEN /\ lf_channel' = [events |-> "read", in_loop |-> TRUE]
                 /\ lf_ghost' = lf_ghost
            ELSE /\ lf_channel' = lf_channel
                 /\ lf_ghost' = [lf_ghost EXCEPT !.functor_use = TRUE]
       ELSE /\ lf_channel' = [events |-> "none", in_loop |-> FALSE]
            /\ lf_ghost' = lf_ghost
    /\ UNCHANGED <<lf_started, lf_cfg, lf_threads, lf_acceptor, lf_listen_fd,
                   lf_backlog, lf_registry, lf_base, lf_pc>>
    /\ LifeOther

\* epoll_wait returns the listener: its channel is registered for reading,
\* the descriptor is open and a connection waits
LfPollReady ==
    /\ lf_base = "poll"
    /\ lf_channel.events = "read"
    /\ lf_listen_fd = "open"
    /\ lf_backlog > 0
    /\ lf_base' = "ready"
    /\ UNCHANGED <<lf_started, lf_cfg, lf_threads, lf_acceptor, lf_listen_fd,
                   lf_channel, lf_backlog, lf_registry, lf_pending, lf_pc,
                   lf_ghost>>
    /\ LifeOther

\* EventLoop::loop finds the channel of the event in channels_ and calls
\* handle_event, whose callback calls do_accept on the acceptor it captured
LfHandleEvent ==
    /\ lf_base = "ready"
    /\ IF lf_channel.in_loop
       THEN /\ lf_base' = "accept"
            /\ lf_ghost' = [lf_ghost EXCEPT
                              !.handler = @ \/ lf_acceptor = "destroyed"]
       ELSE /\ lf_base' = "poll"
            /\ lf_ghost' = lf_ghost
    /\ UNCHANGED <<lf_started, lf_cfg, lf_threads, lf_acceptor, lf_listen_fd,
                   lf_channel, lf_backlog, lf_registry, lf_pending, lf_pc>>
    /\ LifeOther

\* do_accept: accept4(listen_fd_): a connection, EAGAIN, or an error on a
\* descriptor that has been closed
LfAccept4 ==
    /\ lf_base = "accept"
    /\ IF lf_listen_fd # "open"
       THEN /\ lf_ghost' = [lf_ghost EXCEPT !.accept_closed = TRUE,
                                            !.destroyed_use = TRUE]
            /\ lf_base' = "poll"
            /\ lf_backlog' = lf_backlog
       ELSE /\ lf_ghost' = lf_ghost
            /\ IF lf_backlog > 0
               THEN /\ lf_backlog' = lf_backlog - 1
                    /\ lf_base' = "insert"
               ELSE /\ lf_backlog' = lf_backlog
                    /\ lf_base' = "poll"
    /\ UNCHANGED <<lf_started, lf_cfg, lf_threads, lf_acceptor, lf_listen_fd,
                   lf_channel, lf_registry, lf_pending, lf_pc>>
    /\ LifeOther

\* do_accept: the connection is made and server_->add_new_tcp_conn inserts it
\* into connections_
LfAddNewTcpConn ==
    /\ lf_base = "insert"
    /\ lf_registry' = lf_registry + 1
    /\ lf_ghost' = [lf_ghost EXCEPT
                      !.late_insert =
                          @ \/ (lf_ghost.cleared /\ lf_acceptor = "destroyed"),
                      !.destroyed_use = @ \/ lf_acceptor = "destroyed"]
    /\ lf_base' = "accept"
    /\ UNCHANGED <<lf_started, lf_cfg, lf_threads, lf_acceptor, lf_listen_fd,
                   lf_channel, lf_backlog, lf_pending, lf_pc>>
    /\ LifeOther

\* a peer connects to the listening descriptor
LfPeerConnect ==
    /\ lf_listen_fd = "open"
    /\ lf_backlog + lf_registry < MaxBacklog
    /\ lf_backlog' = lf_backlog + 1
    /\ UNCHANGED <<lf_started, lf_cfg, lf_threads, lf_acceptor, lf_listen_fd,
                   lf_channel, lf_registry, lf_pending, lf_base, lf_pc,
                   lf_ghost>>
    /\ LifeOther

\* a constructed server, not started, with its base loop running; the idle
\* timeout enabled or not
LifeInit ==
    /\ ConnStart
    /\ WheelIdle
    /\ LoopIdle
    /\ StopIdle
    /\ ServerIdle
    /\ PoolIdle
    /\ ChanIdle
    /\ MemIdle
    /\ BufIdle
    /\ ExhaustIdle
    /\ CbIdle
    /\ TpIdle
    /\ DispIdle
    /\ IdleMgrIdle
    /\ lf_started = FALSE
    /\ lf_cfg \in BOOLEAN
    /\ lf_threads = [idle |-> FALSE, pool |-> FALSE]
    /\ lf_acceptor = "null"
    /\ lf_listen_fd = "none"
    /\ lf_channel = [events |-> "none", in_loop |-> FALSE]
    /\ lf_backlog = 0
    /\ lf_registry = 0
    /\ lf_pending = <<>>
    /\ lf_base = "poll"
    /\ lf_pc = [c \in LifeCallers |-> "idle"]
    /\ lf_ghost = LifeNoGhost

NextLife ==
    \/ \E c \in LifeCallers : LfStartCas(c)
    \/ \E c \in LifeCallers : LfStartIdleManager(c)
    \/ \E c \in LifeCallers : LfStartPool(c)
    \/ \E c \in LifeCallers, fail \in CtorFailures \cup {"none"} :
           LfStartAcceptor(c, fail)
    \/ \E c \in LifeCallers, fail \in {"listen", "none"} :
           LfStartListen(c, fail)
    \/ \E c \in LifeCallers : LfStopCas(c)
    \/ \E c \in LifeCallers : LfStopIdleManager(c)
    \/ \E c \in LifeCallers : LfDropAcceptor(c)
    \/ \E c \in LifeCallers : LfStopSnapshot(c)
    \/ \E c \in LifeCallers : LfStopPool(c)
    \/ LfFunctor
    \/ LfPollReady
    \/ LfHandleEvent
    \/ LfAccept4
    \/ LfAddNewTcpConn
    \/ LfPeerConnect

SpecLife == LifeInit /\ [][NextLife]_vars

\* the accept handler is running on the base loop's thread
LfInHandler == lf_base \in {"accept", "insert"}

\* C39: once stop() has destroyed the acceptor, the accept handler is not
\* running and has not run since: no accept4 on the closed listening
\* descriptor, no use of the destroyed acceptor, and no connection inserted
\* into the registry after stop() has cleared it.
C39_NoAcceptAfterDrop ==
    /\ lf_acceptor = "destroyed" => ~LfInHandler
    /\ ~lf_ghost.handler
    /\ ~lf_ghost.accept_closed
    /\ ~lf_ghost.destroyed_use
    /\ ~lf_ghost.late_insert

\* C40: when the latest start() has left with an exception from the
\* acceptor's constructor or from listen(), started_ is false and neither the
\* idle manager's threads nor the worker threads are running, and no later
\* start() has been ignored as already started.
C40_FailedStartLeavesNotStarted ==
    /\ lf_ghost.threw =>
           /\ ~lf_started
           /\ ~lf_threads.idle
           /\ ~lf_threads.pool
    /\ ~lf_ghost.ignored
====
